---- MODULE Spec2Model ----
(***************************************************************************)
(* Three-helper MPC runtime of cryo28/ipa: the Reshare protocol            *)
(* (protocol/sort/reshare.rs), the RandomBitsGenerator and its             *)
(* CountingGenerator (protocol/boolean/random_bits_generator.rs), SecureMul *)
(* as run by multiply_in_field (bin/test_mpc.rs), ShareKnownValue,         *)
(* apply_sort_permutation (protocol/sort/apply_sort/mod.rs), the Gateway   *)
(* channels configured in bin/helper.rs, InMemoryNetwork                   *)
(* (test_fixture/transport/network.rs) and RandomBitsGenerator::new.  Each *)
(* part has its own variables and its own specification; the variables of  *)
(* the other parts rest in their ...Unused state.                          *)
(***************************************************************************)
EXTENDS Integers, Sequences, FiniteSets, TLC

(***************************************************************************)
(* Bounds of the model.                                                    *)
(***************************************************************************)
\* Field elements 0..MaxVal are drawn as shares and PRSS values (together
\* with 17, the secret of scenario E4, and PRIME - 1, so that sums wrap).
MaxVal == 0
\* Record ids 0..MaxRecordId are drawn for one run of Reshare.
MaxRecordId == 0
\* Each helper's callers start at most MaxCalls generate() calls.
MaxCalls == 2
\* The fallback channel hands out the record ids 0..MaxFallback-1.
MaxFallback == 2
\* next() calls a CountingGenerator has served before it is observed: from
\* 0 to MaxPrior, or that close to the last value of its 32-bit counter.
MaxPrior == 9
\* next() calls observed on one CountingGenerator.
MaxDraws == 9
\* Longest input vector of apply_sort_permutation.
MaxLen == 3
\* Record ids in use on one channel of the gateway: 0 .. MaxSends - 1.
MaxSends == 2
\* batch_count of the SendBufferConfig (40 in bin/helper.rs, 1024 in
\* benches/oneshot/ipa.rs), scaled down.
batch_count == 1
\* Calls made on an InMemoryNetwork once it is built.
MaxQueries == 3

(***************************************************************************)
(* Field Fp31 (the field of reshare.rs's test and of the RBG tests).       *)
(***************************************************************************)
PRIME == 31

FieldSample == (0 .. MaxVal) \cup {17, PRIME - 1}

Add(a, b) == (a + b) % PRIME

Sub(a, b) == (a + PRIME - b) % PRIME

Mul(a, b) == (a * b) % PRIME

(***************************************************************************)
(* Roles and the ring H1 -> H2 -> H3 -> H1.                                *)
(***************************************************************************)
Roles == {"H1", "H2", "H3"}

\* Role::peer(Direction): the neighbour in the ring.
Peer(role, direction) ==
    IF direction = "Right"
    THEN CASE role = "H1" -> "H2" [] role = "H2" -> "H3" [] OTHER -> "H1"
    ELSE CASE role = "H1" -> "H3" [] role = "H2" -> "H1" [] OTHER -> "H2"

VARIABLES
    \* ---- Reshare ----
    input,        \* input[h]: the Replicated share <<left, right>> helper h holds
    to_helper,    \* the role Reshare::execute is called with
    record_id,    \* the record id Reshare::execute is called with
    prss,         \* prss[h]: the value helper h shares with its right neighbour
    rpc,          \* rpc[h]: where helper h's execute is
    part,         \* part[h]: the local part1 / part2 of a participant
    wire,         \* messages accepted by the channel and not yet received
    sent,         \* every message ever accepted by the channel, in order
    send_calls,   \* send_calls[h]: number of channel.send calls made by h
    recv_calls,   \* recv_calls[h]: number of channel.receive calls returned to h
    faults,       \* faults[h]: the errors the channel returned to helper h
    result,       \* result[h]: what execute returned to helper h
    \* ---- RandomBitsGenerator, one per helper ----
    tasks,            \* the <<helper, task>> pairs that call generate()
    oracle,           \* oracle[<<channel, i>>]: outcome of solved_bits there
    default_counter,  \* default_generator.counter of helper h
    fallback_counter, \* fallback_generator.counter of helper h
    abort_count,      \* abort_count of helper h
    gpc,              \* gpc[<<h, t>>]: where the task's generate() call is
    call,             \* call[<<h, t>>]: the locals and the trace of that call
    started,          \* started[h]: generate() calls begun at helper h
    returned,         \* returned[h]: what the finished calls returned, in order
    burned            \* burned[h][channel]: the record ids helper h passed to
                      \* solved_bits on that channel, in order
VARIABLES
    \* ---- one CountingGenerator, at the full width of its counter ----
    counter,      \* CountingGenerator.counter, an AtomicU32, as two 16-bit
                  \* halves <<high, low>>
    prior,        \* the next() calls served before the observed ones
    handed        \* the record ids the observed next() calls handed out
VARIABLES
    \* ---- SecureMul of one input row, as run by multiply_in_field ----
    row,          \* the input row <<a, b>> of field values
    operands,     \* operands[h]: helper h's shares <<[x], [y]>> of the row
    triple,       \* triple[h]: the PRSS value h shares with its right neighbour
    mpc,          \* mpc[h]: where helper h's multiplication is
    mwire,        \* the d values sent and not yet received
    product       \* product[h]: the share helper h's multiplication returned
VARIABLES
    \* ---- ShareKnownValue ----
    constant,     \* the public constant c
    known         \* known[h]: the share of c helper h made, <<>> before
VARIABLES
    \* ---- apply_sort_permutation; a helper's vector of shares is kept as
    \* the vector of the records its shares are shares of ----
    match_keys,        \* the clear match keys of the input records
    sort_permutation,  \* sort_permutation[h]: the RevealedAndRandomPermutations
                       \* helper h passes
    objects,           \* objects[h]: input, then shuffled_objects of helper h
    apc,               \* apc[h]: where helper h's apply_sort_permutation is
    round,             \* round[h]: the sub-shuffle helper h is in
    swire,             \* the messages sent and not yet received
    slog,              \* every message ever sent, with the sender's position
                       \* when it sent it
    output,            \* output[h]: what apply_sort_permutation returned
    shuffle_error      \* shuffle_error[h]: the error shuffle_shares returned
                       \* to helper h, "none" if it returned none

VARIABLES
    \* ---- Gateway: the channels from one helper to one peer ----
    payloads,     \* payloads[slot]: the bytes the sender sends at the slot
    issued,       \* the slots at which send has been called
    suspended,    \* the slots whose send is suspended
    send_buffer,  \* the messages accepted and not yet drained
    transit,      \* the messages drained and not yet received by the peer
    delivered     \* delivered[slot]: the message receive returned at the slot

VARIABLES
    \* ---- InMemoryNetwork ----
    net_pc,          \* the steps of InMemoryNetwork::default() done so far
    net_transports,  \* the transports made so far: identity and started
    connects,        \* the connect calls made so far, as pairs of identities
    answers          \* what the calls on the built network returned

VARIABLES
    \* ---- RandomBitsGenerator::new ----
    new_ctx,           \* the context new is called with
    new_arg,           \* the total_records argument new is called with
    debug_assertions,  \* whether the build checks debug_assert!
    new_pc,            \* where the call of new is
    default_ctx,       \* the context of the default generator
    fallback_ctx,      \* the context of the fallback generator
    set_calls          \* the contexts set_total_records was called on

reshare_vars == <<input, to_helper, record_id, prss, rpc, part, wire, sent,
                  send_calls, recv_calls, faults, result>>

rbg_vars == <<tasks, oracle, default_counter, fallback_counter, abort_count,
              gpc, call, started, returned, burned>>

counting_vars == <<counter, prior, handed>>

mul_vars == <<row, operands, triple, mpc, mwire, product>>

known_vars == <<constant, known>>

sort_vars == <<match_keys, sort_permutation, objects, apc, round, swire,
               slog, output, shuffle_error>>

gateway_vars == <<payloads, issued, suspended, send_buffer, transit,
                  delivered>>

network_vars == <<net_pc, net_transports, connects, answers>>

new_vars == <<new_ctx, new_arg, debug_assertions, new_pc, default_ctx,
              fallback_ctx, set_calls>>

vars == <<reshare_vars, rbg_vars, counting_vars, mul_vars, known_vars,
          sort_vars, gateway_vars, network_vars, new_vars>>

\* What the steps of one part of the model leave alone.
beside_reshare ==
    <<rbg_vars, counting_vars, mul_vars, known_vars, sort_vars, gateway_vars,
      network_vars, new_vars>>

beside_rbg ==
    <<reshare_vars, counting_vars, mul_vars, known_vars, sort_vars,
      gateway_vars, network_vars, new_vars>>

beside_counting ==
    <<reshare_vars, rbg_vars, mul_vars, known_vars, sort_vars, gateway_vars,
      network_vars, new_vars>>

beside_mul ==
    <<reshare_vars, rbg_vars, counting_vars, known_vars, sort_vars,
      gateway_vars, network_vars, new_vars>>

beside_known ==
    <<reshare_vars, rbg_vars, counting_vars, mul_vars, sort_vars,
      gateway_vars, network_vars, new_vars>>

beside_sort ==
    <<reshare_vars, rbg_vars, counting_vars, mul_vars, known_vars,
      gateway_vars, network_vars, new_vars>>

beside_gateway ==
    <<reshare_vars, rbg_vars, counting_vars, mul_vars, known_vars, sort_vars,
      network_vars, new_vars>>

beside_network ==
    <<reshare_vars, rbg_vars, counting_vars, mul_vars, known_vars, sort_vars,
      gateway_vars, new_vars>>

beside_new ==
    <<reshare_vars, rbg_vars, counting_vars, mul_vars, known_vars, sort_vars,
      gateway_vars, network_vars>>

(***************************************************************************)
(* Replicated shares, PRSS.                                                *)
(***************************************************************************)
\* Replicated::new(left, right)
Replicated(l, r) == <<l, r>>

left(share) == share[1]

right(share) == share[2]

\* prss.generate_fields(record_id) at `role`, for the record id of the run:
\* (r_left, r_right); the right value of a helper is the left value of its
\* right neighbour.
generate_fields(role) == <<prss[Peer(role, "Left")], prss[role]>>

\* share(): helper h holds (s_h, s_{h+1}).
ShareOf(s) == [h \in Roles |-> Replicated(s[h], s[Peer(h, "Right")])]

\* validate_and_reconstruct: the sum of the three left coordinates.
Reconstruct(sh) == Add(Add(left(sh["H1"]), left(sh["H2"])), left(sh["H3"]))

\* validate_and_reconstruct's check: right of H_i is left of H_{i+1}.
Consistent(sh) == \A h \in Roles : right(sh[h]) = left(sh[Peer(h, "Right")])

(***************************************************************************)
(* Results of execute.                                                     *)
(***************************************************************************)
Pending == [tag |-> "pending", share |-> <<>>, error |-> "none"]

Ok(share) == [tag |-> "ok", share |-> share, error |-> "none"]

Err(e) == [tag |-> "err", share |-> <<>>, error |-> e]

\* The errors the channel can hand to execute.
SendError == "send_failed"

ReceiveError == "receive_failed"

(***************************************************************************)
(* Reshare::execute, reshare.rs:37-78.                                     *)
(***************************************************************************)
\* The branch of execute a helper takes (reshare.rs:49, 61, 75).
Branch(role, to) ==
    IF role = Peer(to, "Left") THEN "left"
    ELSE IF role = Peer(to, "Right") THEN "right"
    ELSE "to_helper"

\* part1 without input.right(): the mask is taken off the left share only.
part1_left_only(in, r1) == Sub(left(in), r1)

\* reshare.rs:50  part1 = input.left() + input.right() - r1
part1(in, r1) == Sub(Add(left(in), right(in)), r1)

\* part2 sent unmasked.
part2_unmasked(in, r0) == left(in)

\* reshare.rs:64  part2 = input.left() - r0
part2(in, r0) == Sub(left(in), r0)

\* The value a participant computes and sends.
LocalPart(role) ==
    LET r == generate_fields(role)
    IN  IF Branch(role, to_helper) = "left"
        THEN part1(input[role], r[2])
        ELSE part2(input[role], r[1])

\* Both participants address to_helper's right peer.
Partner_right_only(role) == Peer(to_helper, "Right")

\* The peer a participant sends to and receives from (reshare.rs:52,57,66,71).
Partner(role) ==
    IF Branch(role, to_helper) = "left"
    THEN Peer(to_helper, "Right")
    ELSE Peer(to_helper, "Left")

Message(from, to, rid, payload) ==
    [from |-> from, to |-> to, record_id |-> rid, payload |-> payload]

\* reshare.rs:60  Ok(Replicated::new(part1 + part2, r1))
OutputLeft(p1, p2, r1) == Replicated(Add(p1, p2), r1)

\* The coordinates of to_helper.right's output swapped.
OutputRight_swapped(p1, p2, r0) == Replicated(Add(p1, p2), r0)

\* reshare.rs:74  Ok(Replicated::new(r0, part1 + part2))
OutputRight(p1, p2, r0) == Replicated(r0, Add(p1, p2))

\* to_helper keeps its input share.
OutputToHelper_keeps_input(in, r0, r1) == in

\* reshare.rs:76  Ok(Replicated::new(r0, r1))
OutputToHelper(in, r0, r1) == Replicated(r0, r1)

ReshareInit ==
    /\ \E s \in [Roles -> FieldSample] : input = ShareOf(s)
    /\ to_helper \in Roles
    /\ record_id \in 0 .. MaxRecordId
    /\ prss \in [Roles -> FieldSample]
    /\ rpc = [h \in Roles |-> "start"]
    /\ part = [h \in Roles |-> 0]
    /\ wire = {}
    /\ sent = <<>>
    /\ send_calls = [h \in Roles |-> 0]
    /\ recv_calls = [h \in Roles |-> 0]
    /\ faults = [h \in Roles |-> <<>>]
    /\ result = [h \in Roles |-> Pending]

\* The participant receives first: it sends only once the other
\* participant's message has arrived.
ExecuteSend_after_receive(h) ==
    /\ rpc[h] = "start"
    /\ Branch(h, to_helper) # "to_helper"
    /\ \E m \in wire : m.to = h
    /\ LET m == Message(h, Partner(h), record_id, LocalPart(h))
       IN  /\ wire' = wire \cup {m}
           /\ sent' = Append(sent, m)
    /\ part' = [part EXCEPT ![h] = LocalPart(h)]
    /\ send_calls' = [send_calls EXCEPT ![h] = @ + 1]
    /\ rpc' = [rpc EXCEPT ![h] = "receive"]
    /\ UNCHANGED beside_reshare
    /\ UNCHANGED <<input, to_helper, record_id, prss, recv_calls, faults, result>>

\* reshare.rs:51-53 / 65-67: the participant computes its part and the
\* channel accepts the message.
ExecuteSend(h) ==
    /\ rpc[h] = "start"
    /\ Branch(h, to_helper) # "to_helper"
    /\ LET m == Message(h, Partner(h), record_id, LocalPart(h))
       IN  /\ wire' = wire \cup {m}
           /\ sent' = Append(sent, m)
    /\ part' = [part EXCEPT ![h] = LocalPart(h)]
    /\ send_calls' = [send_calls EXCEPT ![h] = @ + 1]
    /\ rpc' = [rpc EXCEPT ![h] = "receive"]
    /\ UNCHANGED beside_reshare
    /\ UNCHANGED <<input, to_helper, record_id, prss, recv_calls, faults, result>>

\* The error of channel.send dropped: execute goes on to the receive.
AfterSendError_ignored(h) ==
    /\ rpc' = [rpc EXCEPT ![h] = "receive"]
    /\ UNCHANGED result

\* Where execute goes when channel.send returns an error: `?` returns it.
AfterSendError(h) ==
    /\ rpc' = [rpc EXCEPT ![h] = "returned"]
    /\ result' = [result EXCEPT ![h] = Err(SendError)]

\* reshare.rs:53 / 67: channel.send(...).await? fails.
ExecuteSendFail(h) ==
    /\ rpc[h] = "start"
    /\ Branch(h, to_helper) # "to_helper"
    /\ send_calls' = [send_calls EXCEPT ![h] = @ + 1]
    /\ faults' = [faults EXCEPT ![h] = Append(@, SendError)]
    /\ AfterSendError(h)
    /\ UNCHANGED beside_reshare
    /\ UNCHANGED <<input, to_helper, record_id, prss, part, wire, sent,
                   recv_calls>>

\* The share a participant returns once it holds both parts.
ParticipantOutput(h, received) ==
    LET r == generate_fields(h)
    IN  IF Branch(h, to_helper) = "left"
        THEN OutputLeft(part[h], received, r[2])
        ELSE OutputRight(received, part[h], r[1])

\* reshare.rs:56-60 / 70-74: channel.receive(peer, record_id) delivers the
\* message the peer sent at this record id.
ExecuteReceive(h) ==
    /\ rpc[h] = "receive"
    /\ \E m \in wire :
          /\ m.from = Partner(h)
          /\ m.to = h
          /\ m.record_id = record_id
          /\ wire' = wire \ {m}
          /\ result' = [result EXCEPT ![h] = Ok(ParticipantOutput(h, m.payload))]
    /\ recv_calls' = [recv_calls EXCEPT ![h] = @ + 1]
    /\ rpc' = [rpc EXCEPT ![h] = "returned"]
    /\ UNCHANGED beside_reshare
    /\ UNCHANGED <<input, to_helper, record_id, prss, part, sent, send_calls,
                   faults>>

\* Where execute goes when channel.receive returns an error: `?` returns it.
AfterReceiveError(h) ==
    /\ rpc' = [rpc EXCEPT ![h] = "returned"]
    /\ result' = [result EXCEPT ![h] = Err(ReceiveError)]
    /\ UNCHANGED <<wire, sent, send_calls>>

\* reshare.rs:58 / 72: channel.receive(...).await? fails.
ExecuteReceiveFail(h) ==
    /\ rpc[h] = "receive"
    /\ recv_calls' = [recv_calls EXCEPT ![h] = @ + 1]
    /\ faults' = [faults EXCEPT ![h] = Append(@, ReceiveError)]
    /\ AfterReceiveError(h)
    /\ UNCHANGED beside_reshare
    /\ UNCHANGED <<input, to_helper, record_id, prss, part>>

\* reshare.rs:75-77: to_helper returns its PRSS pair.
ExecuteToHelper(h) ==
    /\ rpc[h] = "start"
    /\ Branch(h, to_helper) = "to_helper"
    /\ LET r == generate_fields(h)
       IN  result' = [result EXCEPT ![h] = Ok(OutputToHelper(input[h], r[1], r[2]))]
    /\ rpc' = [rpc EXCEPT ![h] = "returned"]
    /\ UNCHANGED beside_reshare
    /\ UNCHANGED <<input, to_helper, record_id, prss, part, wire, sent,
                   send_calls, recv_calls, faults>>

ReshareNext ==
    \E h \in Roles :
        \/ ExecuteSend(h)
        \/ ExecuteSendFail(h)
        \/ ExecuteReceive(h)
        \/ ExecuteReceiveFail(h)
        \/ ExecuteToHelper(h)

(***************************************************************************)
(* Properties of Reshare.                                                  *)
(***************************************************************************)
\* All three helpers' execute returned Ok.
AllOk == \A h \in Roles : result[h].tag = "ok"

\* The shares execute returned.
Outputs == [h \in Roles |-> result[h].share]

\* The messages helper h put on the wire.
SentBy(h) == {i \in 1 .. Len(sent) : sent[i].from = h}

\* C1: Reshare preserves the secret: when all three helpers have run execute
\* with the same record_id and to_helper on a replicated sharing and a
\* correlated PRSS triple, the outputs sum to the secret the inputs sum to.
C1_ResharePreservesSecret ==
    AllOk => Reconstruct(Outputs) = Reconstruct(input)

\* C1 witness: a completed reshare of the secret 17 that changed the shares.
C1_Witness ==
    /\ AllOk
    /\ Reconstruct(input) = 17
    /\ Outputs # input

\* C2: the three outputs are a consistent replicated sharing: the right
\* coordinate of H_i's output is the left coordinate of H_{i+1}'s output.
C2_OutputsConsistent ==
    AllOk => \A h \in Roles :
                right(Outputs[h]) = left(Outputs[Peer(h, "Right")])

\* C2 witness: a completed reshare whose output coordinates are not all equal.
C2_Witness ==
    /\ AllOk
    /\ \E h \in Roles : left(Outputs[h]) # right(Outputs[h])
    /\ \E h \in Roles : left(Outputs[h]) # left(Outputs[Peer(h, "Right")])

\* C3: one run of Reshare puts exactly two messages on the wire, part1 from
\* to_helper.left to to_helper.right and part2 the other way round; each
\* directed edge carries at most one message at the slot, and to_helper
\* neither sends nor receives.
C3_TwoMessages ==
    LET l == Peer(to_helper, "Left")
        r == Peer(to_helper, "Right")
    IN  /\ \A i \in 1 .. Len(sent) :
              /\ sent[i].record_id = record_id
              /\ \/ /\ sent[i].from = l
                    /\ sent[i].to = r
                    /\ sent[i].payload =
                          part1(input[l], generate_fields(l)[2])
                 \/ /\ sent[i].from = r
                    /\ sent[i].to = l
                    /\ sent[i].payload =
                          part2(input[r], generate_fields(r)[1])
        /\ \A i, j \in 1 .. Len(sent) :
              (sent[i].from = sent[j].from /\ sent[i].to = sent[j].to) => i = j
        /\ send_calls[to_helper] = 0
        /\ recv_calls[to_helper] = 0
        /\ AllOk => (Len(sent) = 2 /\ wire = {})

\* C3 witness: a completed run, both messages sent and received.
C3_Witness ==
    /\ AllOk
    /\ Len(sent) = 2
    /\ recv_calls[Peer(to_helper, "Left")] = 1
    /\ recv_calls[Peer(to_helper, "Right")] = 1

\* C4: the output of to_helper is its PRSS pair (r0, r1): a function of the
\* PRSS values alone, whatever its input share and whatever is on the wire.
C4_ToHelperOutputIsPrss ==
    result[to_helper].tag = "ok" =>
        result[to_helper].share = generate_fields(to_helper)

\* C4 witness: to_helper has returned before any message was sent, with an
\* output that differs from its input share.
C4_Witness ==
    /\ result[to_helper].tag = "ok"
    /\ sent = <<>>
    /\ result[to_helper].share # input[to_helper]

\* C5 as stated: after resharing, at least one helper's output share pair
\* differs from its input share pair.
C5_SomeShareChanges ==
    AllOk => \E h \in Roles : Outputs[h] # input[h]

\* C5 as amended: after resharing, at least one helper's output share pair
\* differs from its input share pair unless to_helper's PRSS pair (r0, r1)
\* equals to_helper's input pair; in that case no helper's pair changes.
C5_ShareChangesUnlessPrssEqualsInput ==
    AllOk => ((\A h \in Roles : Outputs[h] = input[h])
                  <=> generate_fields(to_helper) = input[to_helper])

\* C5 witness: scenario E4, the secret 17 reshared to H3, some pair changed.
C5_Witness ==
    /\ AllOk
    /\ Reconstruct(input) = 17
    /\ to_helper = "H3"
    /\ \E h \in Roles : Outputs[h] # input[h]

\* C6: a transport failure is returned as it is, with no local recovery: a
\* participant whose send failed returns that error and never receives; one
\* whose receive failed returns that error; neither sends again, and neither
\* returns an output share.
C6_FailurePropagates ==
    \A h \in Roles :
        faults[h] # <<>> =>
            /\ Len(faults[h]) = 1
            /\ rpc[h] = "returned"
            /\ result[h] = Err(faults[h][1])
            /\ result[h].share = <<>>
            /\ send_calls[h] = 1
            /\ faults[h][1] = SendError =>
                  (recv_calls[h] = 0 /\ SentBy(h) = {})
            /\ faults[h][1] = ReceiveError =>
                  (recv_calls[h] = 1 /\ Cardinality(SentBy(h)) = 1)

\* C6 witness: one participant's send failed and the other's receive failed.
C6_Witness ==
    \E h, k \in Roles :
        /\ result[h] = Err(SendError)
        /\ result[k] = Err(ReceiveError)
        /\ result[to_helper].tag = "ok"

\* A step of helper h's execute over a lossless channel whose send returns
\* once the message is buffered.
LosslessStep(h) ==
    \/ ExecuteSend(h)
    \/ ExecuteReceive(h)
    \/ ExecuteToHelper(h)

LosslessNext == \E h \in Roles : LosslessStep(h)

\* A helper that has not sent yet is not waiting for anything: a
\* participant can send, and to_helper can return.
NeverWaitsBeforeSend ==
    \A h \in Roles :
        rpc[h] = "start" =>
            IF Branch(h, to_helper) = "to_helper"
            THEN ENABLED ExecuteToHelper(h)
            ELSE ENABLED ExecuteSend(h)

\* A participant that is at its receive, or past it, has sent its part.
SentBeforeReceive ==
    \A h \in Roles :
        (rpc[h] = "receive" \/ recv_calls[h] > 0) => SentBy(h) # {}

\* C28: Reshare does not deadlock: both participants send before they
\* receive and to_helper waits for no peer, so when the three helpers call
\* execute with the same record_id and to_helper over a lossless channel
\* whose send returns once the message is buffered, under fair scheduling
\* every helper's execute returns.
C28_ReshareTerminates ==
    /\ []NeverWaitsBeforeSend
    /\ []SentBeforeReceive
    /\ <>[]AllOk

\* C28 witness: both participants have sent and are at their receive, with
\* both messages buffered, and to_helper has not run yet.
C28_Witness ==
    /\ rpc[Peer(to_helper, "Left")] = "receive"
    /\ rpc[Peer(to_helper, "Right")] = "receive"
    /\ rpc[to_helper] = "start"
    /\ Cardinality(wire) = 2

\* No Reshare run: the state the Reshare variables keep while the random
\* bits generators run.
ReshareUnused ==
    /\ input = [h \in Roles |-> Replicated(0, 0)]
    /\ to_helper = "H1"
    /\ record_id = 0
    /\ prss = [h \in Roles |-> 0]
    /\ rpc = [h \in Roles |-> "returned"]
    /\ part = [h \in Roles |-> 0]
    /\ wire = {}
    /\ sent = <<>>
    /\ send_calls = [h \in Roles |-> 0]
    /\ recv_calls = [h \in Roles |-> 0]
    /\ faults = [h \in Roles |-> <<>>]
    /\ result = [h \in Roles |-> Pending]

(***************************************************************************)
(* RandomBitsGenerator, random_bits_generator.rs.                          *)
(***************************************************************************)
\* The two CountingGenerators of a RandomBitsGenerator.
Channels == {"default", "fallback"}

\* The (channel, record id) pairs solved_bits can be run at.
Slots == ({"default"} \X (0 .. MaxCalls - 1))
             \cup ({"fallback"} \X (0 .. MaxFallback - 1))

\* The task ids a helper's callers have.
TaskIds == {1, 2}

\* solved_bits(ctx, RecordId::from(i)): Some or None, the same at all three
\* helpers since it is derived from a revealed bit; open until the first
\* helper learns it.
solved_bits(channel, i) ==
    IF oracle[<<channel, i>>] = "open"
    THEN {"Some", "None"}
    ELSE {oracle[<<channel, i>>]}

\* The number of calls in `log` that returned an error.
RECURSIVE ErrCount(_)
ErrCount(log) ==
    IF log = <<>> THEN 0
    ELSE (IF log[1].tag = "err" THEN 1 ELSE 0) + ErrCount(Tail(log))

\* The transport errors the helpers have met so far.
Errors == ErrCount(returned["H1"]) + ErrCount(returned["H2"])
              + ErrCount(returned["H3"])

\* What solved_bits(...).await hands to generate(): the protocol's outcome,
\* or an error of the transport under it (the transport fails at most once
\* in a query: the query is aborted then).
Outcomes(channel, i) ==
    solved_bits(channel, i) \cup (IF Errors = 0 THEN {"Err"} ELSE {})

\* The revealed bit of a solved_bits run becomes public.
Reveal(channel, i, outcome) ==
    oracle' = IF outcome = "Err" THEN oracle
              ELSE [oracle EXCEPT ![<<channel, i>>] = outcome]

\* The counter read and never advanced.
fetch_add_load_only(n) == n

\* A u32 is kept as two 16-bit halves <<high, low>>: 2^32 is no number of
\* the model checker.
U16 == 65536

AsU32(n) == <<n \div U16, n % U16>>

\* The number a u32 below 2^31 stands for.
AsInt(u) == u[1] * U16 + u[2]

\* u < v for two u32.
LessU32(u, v) == u[1] < v[1] \/ (u[1] = v[1] /\ u[2] < v[2])

\* AtomicU32::fetch_add(1, ..): the new value of the counter; it wraps
\* around on overflow.
wrapping_add_one(u) ==
    IF u[2] + 1 < U16 THEN <<u[1], u[2] + 1>>
    ELSE <<(u[1] + 1) % U16, 0>>

\* AtomicU32::fetch_add(1, AcqRel) of CountingGenerator::next: the new value
\* of the counter (the old one is the record id drawn).
fetch_add(n) == AsInt(wrapping_add_one(AsU32(n)))

\* The result of the default attempt is not looked at: the call goes to the
\* fallback channel also after Some.
AfterDefault_always_fallback(outcome) ==
    CASE outcome = "Err" -> "return_err"
      [] OTHER -> "abort_inc"

\* An error of the default attempt is taken for None.
AfterDefault_error_as_none(outcome) ==
    CASE outcome = "Some" -> "return_ok"
      [] OTHER -> "abort_inc"

\* random_bits_generator.rs:95-97: what generate() does with the result of
\* default_generator.next().await? .
AfterDefault(outcome) ==
    CASE outcome = "Some" -> "return_ok"
      [] outcome = "None" -> "abort_inc"
      [] OTHER -> "return_err"

\* The loop has no exit: a Some of the fallback attempt is dropped like a
\* None.
AfterFallback_no_break(outcome) ==
    CASE outcome = "Err" -> "return_err"
      [] OTHER -> "abort_inc"

\* The fallback attempt is returned whatever it gave: `if let Some(v)`
\* replaced by an unconditional return of the attempt.
AfterFallback_returns_any(outcome) ==
    CASE outcome = "Err" -> "return_err"
      [] OTHER -> "return_ok"

\* An error of a fallback attempt is taken for None: the loop goes on.
AfterFallback_error_as_none(outcome) ==
    CASE outcome = "Some" -> "return_ok"
      [] OTHER -> "abort_inc"

\* random_bits_generator.rs:100-102: what the loop does with the result of
\* fallback_generator.next().await? .
AfterFallback(outcome) ==
    CASE outcome = "Some" -> "return_ok"
      [] outcome = "None" -> "abort_inc"
      [] OTHER -> "return_err"

\* The locals of a generate() call (rid: the record id of its pending
\* attempt) and its trace: the record id and the outcome of its default
\* attempt, and how often it incremented abort_count and drew a fallback id.
NewCall(i) ==
    [rid |-> i, default_id |-> i, default_outcome |-> "pending",
     aborts |-> 0, fallbacks |-> 0]

NoCall == NewCall(0)

\* What a finished generate() call returned, and what it did before.
Returned(tag, channel, c, t) ==
    [tag |-> tag, channel |-> channel, rid |-> c.rid, task |-> t,
     default_id |-> c.default_id, default_outcome |-> c.default_outcome,
     aborts |-> c.aborts, fallbacks |-> c.fallbacks]

\* RandomBitsGenerator::new at every helper; `callers` are the tasks that
\* hold the generator.
RBGInit(callers) ==
    /\ tasks = callers
    /\ oracle = [s \in Slots |-> "open"]
    /\ default_counter = [h \in Roles |-> 0]
    /\ fallback_counter = [h \in Roles |-> 0]
    /\ abort_count = [h \in Roles |-> 0]
    /\ gpc = [c \in Roles \X TaskIds |-> "idle"]
    /\ call = [c \in Roles \X TaskIds |-> NoCall]
    /\ started = [h \in Roles |-> 0]
    /\ returned = [h \in Roles |-> <<>>]
    /\ burned = [h \in Roles |-> [ch \in Channels |-> <<>>]]

\* The counter is loaded and stored back in two steps instead of one
\* fetch_add: a call that overlaps another task's default attempt draws the
\* record id that task drew, and the counter advances once for the two.
GenerateCall_load_then_store(h, t) ==
    /\ <<h, t>> \in tasks
    /\ gpc[<<h, t>>] = "idle"
    /\ started[h] < MaxCalls
    /\ LET i == IF \E u \in TaskIds : gpc[<<h, u>>] = "default_await"
                THEN default_counter[h] - 1
                ELSE default_counter[h]
       IN  /\ call' = [call EXCEPT ![<<h, t>>] = NewCall(i)]
           /\ default_counter' = [default_counter EXCEPT ![h] = i + 1]
           /\ burned' = [burned EXCEPT ![h]["default"] = Append(@, i)]
    /\ started' = [started EXCEPT ![h] = @ + 1]
    /\ gpc' = [gpc EXCEPT ![<<h, t>>] = "default_await"]
    /\ UNCHANGED <<tasks, oracle, fallback_counter, abort_count, returned>>
    /\ UNCHANGED beside_rbg

\* random_bits_generator.rs:95 and 129: generate() calls
\* default_generator.next(), which draws the next default record id.
GenerateCall(h, t) ==
    /\ <<h, t>> \in tasks
    /\ gpc[<<h, t>>] = "idle"
    /\ started[h] < MaxCalls
    /\ started' = [started EXCEPT ![h] = @ + 1]
    /\ call' = [call EXCEPT ![<<h, t>>] = NewCall(default_counter[h])]
    /\ default_counter' = [default_counter EXCEPT ![h] = fetch_add(@)]
    /\ burned' = [burned EXCEPT ![h]["default"] = Append(@, default_counter[h])]
    /\ gpc' = [gpc EXCEPT ![<<h, t>>] = "default_await"]
    /\ UNCHANGED <<tasks, oracle, fallback_counter, abort_count, returned>>
    /\ UNCHANGED beside_rbg

\* generate() returns: Ok(v) with the share of the pending attempt, or the
\* error of that attempt.
Return(h, t, how, channel) ==
    /\ returned' = [returned EXCEPT ![h] =
          Append(@, Returned(IF how = "return_ok" THEN "ok" ELSE "err",
                             channel, call'[<<h, t>>], t))]
    /\ gpc' = [gpc EXCEPT ![<<h, t>>] = "idle"]

\* random_bits_generator.rs:95-97 and 130: solved_bits on the default channel
\* completes.
DefaultAwait(h, t) ==
    /\ gpc[<<h, t>>] = "default_await"
    /\ \E o \in Outcomes("default", call[<<h, t>>].rid) :
          /\ Reveal("default", call[<<h, t>>].rid, o)
          /\ call' = [call EXCEPT ![<<h, t>>].default_outcome = o]
          /\ LET to == AfterDefault(o)
             IN  IF to = "abort_inc"
                 THEN /\ gpc' = [gpc EXCEPT ![<<h, t>>] = "abort_inc"]
                      /\ UNCHANGED returned
                 ELSE Return(h, t, to, "default")
    /\ UNCHANGED <<tasks, default_counter, fallback_counter,
                   abort_count, started, burned>>
    /\ UNCHANGED beside_rbg

\* The increment moved out of the loop: abort_count counts the calls that
\* fell back, not their attempts.
AbortInc_once_per_call(h, t) ==
    /\ gpc[<<h, t>>] = "abort_inc"
    /\ abort_count' = [abort_count EXCEPT ![h] =
                          IF call[<<h, t>>].aborts = 0 THEN @ + 1 ELSE @]
    /\ call' = [call EXCEPT ![<<h, t>>].aborts = 1]
    /\ gpc' = [gpc EXCEPT ![<<h, t>>] = "fallback_next"]
    /\ UNCHANGED <<tasks, oracle, default_counter, fallback_counter, started,
                   returned, burned>>
    /\ UNCHANGED beside_rbg

\* random_bits_generator.rs:99: self.abort_count.fetch_add(1, AcqRel).
AbortInc(h, t) ==
    /\ gpc[<<h, t>>] = "abort_inc"
    /\ abort_count' = [abort_count EXCEPT ![h] = @ + 1]
    /\ call' = [call EXCEPT ![<<h, t>>].aborts = @ + 1]
    /\ gpc' = [gpc EXCEPT ![<<h, t>>] = "fallback_next"]
    /\ UNCHANGED <<tasks, oracle, default_counter, fallback_counter, started,
                   returned, burned>>
    /\ UNCHANGED beside_rbg

\* Every call counts its own fallback attempts instead of drawing from the
\* shared atomic counter.
FallbackNext_per_caller_ids(h, t) ==
    /\ gpc[<<h, t>>] = "fallback_next"
    /\ call[<<h, t>>].fallbacks < MaxFallback
    /\ call' = [call EXCEPT ![<<h, t>>].rid = call[<<h, t>>].fallbacks,
                            ![<<h, t>>].fallbacks = @ + 1]
    /\ fallback_counter' = [fallback_counter EXCEPT ![h] = fetch_add(@)]
    /\ burned' = [burned EXCEPT ![h]["fallback"] =
                                  Append(@, call[<<h, t>>].fallbacks)]
    /\ gpc' = [gpc EXCEPT ![<<h, t>>] = "fallback_await"]
    /\ UNCHANGED <<tasks, oracle, default_counter, abort_count, started,
                   returned>>
    /\ UNCHANGED beside_rbg

\* random_bits_generator.rs:100 and 129: fallback_generator.next() draws the
\* next fallback record id.
FallbackNext(h, t) ==
    /\ gpc[<<h, t>>] = "fallback_next"
    /\ fallback_counter[h] < MaxFallback
    /\ call' = [call EXCEPT ![<<h, t>>].rid = fallback_counter[h],
                            ![<<h, t>>].fallbacks = @ + 1]
    /\ fallback_counter' = [fallback_counter EXCEPT ![h] = fetch_add(@)]
    /\ burned' = [burned EXCEPT ![h]["fallback"] =
                                  Append(@, fallback_counter[h])]
    /\ gpc' = [gpc EXCEPT ![<<h, t>>] = "fallback_await"]
    /\ UNCHANGED <<tasks, oracle, default_counter, abort_count, started,
                   returned>>
    /\ UNCHANGED beside_rbg

\* random_bits_generator.rs:100-102 and 130: solved_bits on the fallback
\* channel completes.
FallbackAwait(h, t) ==
    /\ gpc[<<h, t>>] = "fallback_await"
    /\ UNCHANGED call
    /\ \E o \in Outcomes("fallback", call[<<h, t>>].rid) :
          /\ Reveal("fallback", call[<<h, t>>].rid, o)
          /\ LET to == AfterFallback(o)
             IN  IF to = "abort_inc"
                 THEN /\ gpc' = [gpc EXCEPT ![<<h, t>>] = "abort_inc"]
                      /\ UNCHANGED returned
                 ELSE Return(h, t, to, "fallback")
    /\ UNCHANGED <<tasks, default_counter, fallback_counter,
                   abort_count, started, burned>>
    /\ UNCHANGED beside_rbg

RBGNext ==
    \E h \in Roles, t \in TaskIds :
        \/ GenerateCall(h, t)
        \/ DefaultAwait(h, t)
        \/ AbortInc(h, t)
        \/ FallbackNext(h, t)
        \/ FallbackAwait(h, t)

\* No generator in use: the state the generator variables keep while Reshare
\* runs.
RBGUnused ==
    /\ tasks = {}
    /\ oracle = [s \in Slots |-> "open"]
    /\ default_counter = [h \in Roles |-> 0]
    /\ fallback_counter = [h \in Roles |-> 0]
    /\ abort_count = [h \in Roles |-> 0]
    /\ gpc = [c \in Roles \X TaskIds |-> "idle"]
    /\ call = [c \in Roles \X TaskIds |-> NoCall]
    /\ started = [h \in Roles |-> 0]
    /\ returned = [h \in Roles |-> <<>>]
    /\ burned = [h \in Roles |-> [ch \in Channels |-> <<>>]]

\* No CountingGenerator under observation.
CountingUnused ==
    /\ counter = AsU32(0)
    /\ prior = AsU32(0)
    /\ handed = <<>>

\* random_bits_generator.rs:109-111: aborts() loads abort_count.
aborts(h) == abort_count[h]

(***************************************************************************)
(* Properties of the RandomBitsGenerator.                                  *)
(***************************************************************************)
\* No generate() call is in flight at helper h.
Idle(h) == \A t \in TaskIds : gpc[<<h, t>>] = "idle"

\* The calls of helper h that are in flight.
InFlight(h) == {t \in TaskIds : gpc[<<h, t>>] # "idle"}

\* The pending call of a task is inside the fallback loop.
InLoop(c) == gpc[c] \in {"abort_inc", "fallback_next", "fallback_await"}

\* C7: every generate() call attempts the default generator exactly once:
\* the default record counter is the number of generate() calls begun,
\* whether their attempts returned Some, None or an error.
C7_DefaultOncePerCall ==
    \A h \in Roles :
        /\ default_counter[h] = started[h]
        /\ started[h] = Len(returned[h]) + Cardinality(InFlight(h))

\* C7 witness: a helper whose two calls met an error and a None on the
\* default channel, while another helper's call got Some there.
C7_Witness ==
    \E h, k \in Roles :
        /\ default_counter[h] = 2
        /\ Len(returned[h]) = 2
        /\ \E i, j \in 1 .. 2 :
              /\ returned[h][i].default_outcome = "Err"
              /\ returned[h][j].default_outcome = "None"
        /\ Len(returned[k]) > 0
        /\ returned[k][1].default_outcome = "Some"

\* C8: generate() enters the fallback channel if and only if its default
\* attempt returned None; a call whose default attempt returned Some
\* returns that share and has touched neither the fallback record counter
\* nor abort_count.
C8_FallbackIffDefaultNone ==
    \A h \in Roles :
        /\ \A t \in InFlight(h) :
              /\ InLoop(<<h, t>>) <=> call[<<h, t>>].default_outcome = "None"
              /\ (call[<<h, t>>].aborts > 0 \/ call[<<h, t>>].fallbacks > 0)
                    => call[<<h, t>>].default_outcome = "None"
        /\ \A i \in 1 .. Len(returned[h]) :
              LET r == returned[h][i]
              IN  /\ (r.aborts > 0 \/ r.fallbacks > 0 \/ r.channel = "fallback")
                        <=> r.default_outcome = "None"
                  /\ r.default_outcome = "Some" =>
                        /\ r.tag = "ok"
                        /\ r.channel = "default"
                        /\ r.rid = r.default_id
                        /\ r.aborts = 0
                        /\ r.fallbacks = 0

\* C8 witness: a helper with one call that returned the default share and
\* one that returned a fallback share.
C8_Witness ==
    \E h \in Roles :
        \E i, j \in 1 .. Len(returned[h]) :
            /\ returned[h][i].default_outcome = "Some"
            /\ returned[h][i].tag = "ok"
            /\ returned[h][j].default_outcome = "None"
            /\ returned[h][j].tag = "ok"
            /\ returned[h][j].channel = "fallback"
            /\ fallback_counter[h] > 0

\* C9: aborts() is the number of fallback attempts: abort_count is
\* incremented right before each fallback attempt, so it is never less than
\* the fallback record counter, and equals it whenever no generate() call is
\* in flight.
C9_AbortsCountFallbackAttempts ==
    \A h \in Roles :
        /\ aborts(h) >= fallback_counter[h]
        /\ aborts(h) <= fallback_counter[h] + Cardinality(InFlight(h))
        /\ Idle(h) => aborts(h) = fallback_counter[h]

\* C9 witness: a helper at rest after a call that needed two fallback
\* attempts, and a helper between the increment and the attempt.
C9_Witness ==
    /\ \E h \in Roles :
          /\ Idle(h)
          /\ aborts(h) = 2
          /\ \E i \in 1 .. Len(returned[h]) : returned[h][i].fallbacks = 2
    /\ \E k \in Roles : aborts(k) > fallback_counter[k]

\* C10: RBG determinism: the Some/None outcome of solved_bits at a (channel,
\* record id) being the same at all helpers, helpers that have completed the
\* same number of generate() calls, none with an error, and have none in
\* flight report equal aborts().
C10_AbortsEqualAtQuiescence ==
    \A h, k \in Roles :
        (/\ Idle(h)
         /\ Idle(k)
         /\ Len(returned[h]) = Len(returned[k])
         /\ ErrCount(returned[h]) = 0
         /\ ErrCount(returned[k]) = 0)
            => aborts(h) = aborts(k)

\* C10 witness: the three helpers at rest after two calls each, with aborts.
C10_Witness ==
    /\ \A h \in Roles :
          /\ Idle(h)
          /\ Len(returned[h]) = 2
          /\ ErrCount(returned[h]) = 0
    /\ aborts("H1") > 0
    /\ aborts("H1") = aborts("H2")
    /\ aborts("H2") = aborts("H3")

\* The first n calls helper h finished all returned a share.
NoErrorIn(h, n) == \A i \in 1 .. n : returned[h][i].tag = "ok"

\* Sequence a is an initial part of sequence b.
IsPrefix(a, b) ==
    /\ Len(a) <= Len(b)
    /\ \A i \in 1 .. Len(a) : a[i] = b[i]

\* C11: the three helpers burn the same sequence of record ids on the default
\* and on the fallback channel: of two helpers' lists of record ids passed to
\* solved_bits on a channel one is an initial part of the other, the lists
\* are equal once both helpers are at rest after the same number of calls,
\* none with an error, and the k-th generate() call returns at both helpers
\* a share produced at the same (channel, record id).
C11_SameRecordIds ==
    \A h, j \in Roles :
        /\ \A ch \in Channels :
              \/ IsPrefix(burned[h][ch], burned[j][ch])
              \/ IsPrefix(burned[j][ch], burned[h][ch])
        /\ (/\ Idle(h)
            /\ Idle(j)
            /\ Len(returned[h]) = Len(returned[j])
            /\ NoErrorIn(h, Len(returned[h]))
            /\ NoErrorIn(j, Len(returned[j])))
               => burned[h] = burned[j]
        /\ \A n \in 1 .. Len(returned[h]) :
              (/\ n <= Len(returned[j])
               /\ NoErrorIn(h, n)
               /\ NoErrorIn(j, n))
                  => /\ returned[h][n].channel = returned[j][n].channel
                     /\ returned[h][n].rid = returned[j][n].rid

\* C11 witness: the three helpers at rest after two calls each, the first
\* on the default channel, the second on the second fallback record id.
C11_Witness ==
    /\ \A h \in Roles :
          /\ Idle(h)
          /\ Len(returned[h]) = 2
          /\ NoErrorIn(h, 2)
          /\ burned[h]["default"] = <<0, 1>>
          /\ burned[h]["fallback"] = <<0, 1>>
    /\ \E n \in 1 .. 2 :
          /\ returned["H1"][n].channel = "fallback"
          /\ returned["H1"][n].rid = 1
          /\ returned["H2"][n].rid = 1
          /\ returned["H3"][n].rid = 1
    /\ \E n \in 1 .. 2 : returned["H1"][n].channel = "default"

\* C13: every share generate() returns comes from a solved_bits attempt that
\* returned Some: a call that returned Ok returned the share of the attempt
\* at its (channel, record id), and the outcome of solved_bits there is
\* Some, never None; on the default channel that attempt is the call's
\* default attempt, on the fallback channel it follows a None of the default
\* attempt.
C13_ReturnedShareIsSome ==
    \A h \in Roles :
        \A n \in 1 .. Len(returned[h]) :
            LET r == returned[h][n]
            IN  r.tag = "ok" =>
                  /\ oracle[<<r.channel, r.rid>>] = "Some"
                  /\ r.channel = "default" =>
                        /\ r.rid = r.default_id
                        /\ r.default_outcome = "Some"
                  /\ r.channel = "fallback" =>
                        /\ r.default_outcome = "None"
                        /\ oracle[<<"default", r.default_id>>] = "None"
                        /\ r.fallbacks >= 1

\* C13 witness: a call that returned the share of its second fallback
\* attempt, the first fallback attempt having given None.
C13_Witness ==
    \E h \in Roles :
        \E n \in 1 .. Len(returned[h]) :
            /\ returned[h][n].tag = "ok"
            /\ returned[h][n].channel = "fallback"
            /\ returned[h][n].fallbacks = 2
            /\ oracle[<<"fallback", returned[h][n].rid>>] = "Some"
            /\ \E i \in 0 .. MaxFallback - 1 :
                  /\ i < returned[h][n].rid
                  /\ oracle[<<"fallback", i>>] = "None"

\* The slots of a channel whose solved_bits outcome is in `outcomes`.
SlotsWith(channel, outcomes) ==
    {s \in Slots : s[1] = channel /\ oracle[s] \in outcomes}

\* solved_bits does not return None forever on the fallback channel: within
\* the record ids of the model, every default attempt that gave None has a
\* fallback record id that does not give None.
FallbackNotStarved ==
    Cardinality(SlotsWith("default", {"None"}))
        <= Cardinality(SlotsWith("fallback", {"Some", "open"}))

\* A step of helper h's task in a run without transport errors and without
\* a starved fallback channel.
LiveStep(h) ==
    /\ \E t \in TaskIds :
          \/ GenerateCall(h, t)
          \/ DefaultAwait(h, t)
          \/ AbortInc(h, t)
          \/ FallbackNext(h, t)
          \/ FallbackAwait(h, t)
    /\ Errors' = 0
    /\ FallbackNotStarved'

LiveNext == \E h \in Roles : LiveStep(h)

\* C12: every draw succeeds eventually: under fair scheduling of the
\* helpers' tasks, with no transport error and a fallback channel that does
\* not return None forever, a generate() call in flight at a helper, also
\* one that has incremented abort_count, leads to the helper's task at rest
\* with every call it began returned, each with Ok and a share.
C12_EveryDrawSucceeds ==
    \A h \in Roles :
        (gpc[<<h, 1>>] # "idle")
            ~> (/\ gpc[<<h, 1>>] = "idle"
                /\ Len(returned[h]) = started[h]
                /\ NoErrorIn(h, started[h]))

\* C12 witness: a call that returned a share after two aborts.
C12_Witness ==
    \E h \in Roles :
        \E n \in 1 .. Len(returned[h]) :
            /\ returned[h][n].tag = "ok"
            /\ returned[h][n].aborts = 2
            /\ abort_count[h] >= 2
            /\ gpc[<<h, 1>>] = "idle"

\* The sum of a counter of the trace (aborts, fallbacks) over the calls in
\* `log`.
RECURSIVE Total(_, _)
Total(log, field) ==
    IF log = <<>> THEN 0 ELSE log[1][field] + Total(Tail(log), field)

\* The same sum over the calls in flight at helper h.
RECURSIVE TotalInFlight(_, _, _)
TotalInFlight(h, ts, field) ==
    IF ts = {} THEN 0
    ELSE LET t == CHOOSE u \in ts : TRUE
         IN  call[<<h, t>>][field] + TotalInFlight(h, ts \ {t}, field)

\* C15: a RandomBitsGenerator is safe to share between concurrent tasks:
\* under any interleaving of generate() calls on one generator no two
\* solved_bits invocations on a channel receive the same record id, and no
\* increment is lost: each record counter is the number of ids drawn on its
\* channel, the default one the number of calls begun, the fallback one the
\* number of fallback attempts of all calls, and abort_count the number of
\* increments of all calls.
C15_NoLostUpdate ==
    \A h \in Roles :
        /\ \A ch \in Channels :
              \A i, j \in 1 .. Len(burned[h][ch]) :
                  i # j => burned[h][ch][i] # burned[h][ch][j]
        /\ \A t, u \in InFlight(h) :
              (/\ t # u
               /\ gpc[<<h, t>>] = gpc[<<h, u>>]
               /\ gpc[<<h, t>>] \in {"default_await", "fallback_await"})
                  => call[<<h, t>>].rid # call[<<h, u>>].rid
        /\ default_counter[h] = Len(burned[h]["default"])
        /\ default_counter[h] = started[h]
        /\ fallback_counter[h] = Len(burned[h]["fallback"])
        /\ fallback_counter[h] = Total(returned[h], "fallbacks")
                                   + TotalInFlight(h, InFlight(h), "fallbacks")
        /\ abort_count[h] = Total(returned[h], "aborts")
                              + TotalInFlight(h, InFlight(h), "aborts")

\* C15 witness: two tasks of one generator both wait for a fallback attempt,
\* each at its own record id, after two increments of abort_count.
C15_Witness ==
    \E h \in Roles :
        /\ gpc[<<h, 1>>] = "fallback_await"
        /\ gpc[<<h, 2>>] = "fallback_await"
        /\ call[<<h, 1>>].rid # call[<<h, 2>>].rid
        /\ abort_count[h] = 2
        /\ fallback_counter[h] = 2
        /\ default_counter[h] = 2

\* The generate() calls task t of helper h has made.
CallsOf(h, t) ==
    Cardinality({n \in 1 .. Len(returned[h]) : returned[h][n].task = t})
        + (IF gpc[<<h, t>>] = "idle" THEN 0 ELSE 1)

\* Racing tasks: every helper shares its generator among its tasks, each
\* task draws one share, and the transport does not fail.
RacingNext ==
    /\ RBGNext
    /\ Errors' = 0
    /\ \A h \in Roles, t \in TaskIds : CallsOf(h, t)' <= 1

\* The calls of task t among the finished calls in `log`, in order.
ByTask(log, t) == SelectSeq(log, LAMBDA r : r.task = t)

\* The (channel, record id) of the shares the finished calls of helper h
\* returned.
OkSlots(h) ==
    {<<returned[h][n].channel, returned[h][n].rid>> :
        n \in {i \in 1 .. Len(returned[h]) : returned[h][i].tag = "ok"}}

\* C25 as stated: with two or more tasks on each helper calling generate()
\* concurrently, the n-th share of a task is produced at the same (channel,
\* record id) at all three helpers, under every interleaving.
C25_TaskSameSlotAtAllHelpers ==
    \A h, k \in Roles, t \in TaskIds :
        LET a == ByTask(returned[h], t)
            b == ByTask(returned[k], t)
        IN  \A n \in 1 .. Len(a) :
                (n <= Len(b) /\ a[n].tag = "ok" /\ b[n].tag = "ok") =>
                    (a[n].channel = b[n].channel /\ a[n].rid = b[n].rid)

\* C25 as amended: with two or more tasks on each helper calling generate()
\* concurrently, every share a helper's tasks obtained was produced at a
\* (channel, record id) of its own, and two helpers at rest after the same
\* number of calls obtained their shares at the same set of (channel,
\* record id); which task obtained which of them depends on the
\* interleaving at each helper, so the three shares a task holds
\* reconstruct to one value only after the results are sorted by (channel,
\* record id).
C25_SameSlotsUpToTaskOrder ==
    \A h, k \in Roles :
        /\ Cardinality(OkSlots(h)) = Len(returned[h])
        /\ (Idle(h) /\ Idle(k) /\ started[h] = started[k]) =>
              OkSlots(h) = OkSlots(k)

\* C25 witness: both tasks of H1 and of H2 have returned once; task 1 holds
\* at H1 the share task 2 holds at H2, one of them from the fallback
\* channel.
C25_Witness ==
    /\ Idle("H1") /\ Idle("H2")
    /\ started["H1"] = 2 /\ started["H2"] = 2
    /\ Len(ByTask(returned["H1"], 1)) = 1
    /\ Len(ByTask(returned["H2"], 1)) = 1
    /\ LET a == ByTask(returned["H1"], 1)[1]
           b == ByTask(returned["H2"], 2)[1]
       IN  /\ a.channel = b.channel /\ a.rid = b.rid
    /\ \E c \in OkSlots("H1") : c[1] = "fallback"
    /\ OkSlots("H1") = OkSlots("H2")

(***************************************************************************)
(* One CountingGenerator at the full width of its counter.                 *)
(***************************************************************************)
\* The numbers of next() calls a generator may have served before it is
\* observed: few, or all but a few of the 2^32 values of its counter.
PriorCalls ==
    {AsU32(n) : n \in 0 .. MaxPrior}
        \cup {<<U16 - 1, U16 - 1 - n>> : n \in 0 .. MaxPrior}

\* random_bits_generator.rs:120-131: a CountingGenerator created with counter
\* 0 that has served n next() calls holds n in its counter and has handed
\* out the record ids below n.
CountingInit ==
    \E n \in PriorCalls :
        /\ counter = n
        /\ prior = n
        /\ handed = <<>>

\* random_bits_generator.rs:128-131: CountingGenerator::next hands the old
\* value of the counter to solved_bits and advances the counter.
CountingNext ==
    /\ Len(handed) < MaxDraws
    /\ handed' = Append(handed, counter)
    /\ counter' = wrapping_add_one(counter)
    /\ UNCHANGED prior
    /\ UNCHANGED beside_counting

\* C14: record counters are monotonic and never recycled within a step:
\* the record ids a CountingGenerator hands out are strictly increasing and
\* none is handed out twice, neither among the observed next() calls nor
\* with respect to the ids below `prior` handed out before them.
C14_IdsIncreaseNeverRepeat ==
    \A i \in 1 .. Len(handed) :
        /\ ~LessU32(handed[i], prior)
        /\ \A j \in 1 .. Len(handed) :
              i < j => LessU32(handed[i], handed[j])

(***************************************************************************)
(* SecureMul (spec 4.4) and multiply_in_field, bin/test_mpc.rs.            *)
(***************************************************************************)
\* The values the shares and the PRSS values of a multiplication are drawn
\* from.
MaskSample == (0 .. MaxVal) \cup {PRIME - 1}

\* Scenario E1: the input rows of the Fp31 multiplication.
E1Inputs == <<(<<2, 3>>), (<<5, 7>>), (<<0, 9>>)>>

\* The input rows multiply_in_field reads.
InputRows ==
    {E1Inputs[i] : i \in 1 .. Len(E1Inputs)} \cup (FieldSample \X FieldSample)

\* A replicated sharing of v whose first two parts are s1 and s2.
IntoShares(v, s1, s2) ==
    ShareOf([h \in Roles |->
                CASE h = "H1" -> s1
                  [] h = "H2" -> s2
                  [] OTHER -> Sub(Sub(v, s1), s2)])

\* The PRSS pair (r_left, r_right) of a helper.
r_left(role) == triple[Peer(role, "Left")]

r_right(role) == triple[role]

\* The cross term x_{i+1} * y_i is left out.
d_without_cross_term(role) ==
    LET x == operands[role][1]
        y == operands[role][2]
    IN  Sub(Add(Add(Mul(left(x), left(y)), Mul(left(x), right(y))),
                r_left(role)),
            r_right(role))

\* d_i = x_i*y_i + x_i*y_{i+1} + x_{i+1}*y_i + r_left - r_right.
d(role) ==
    LET x == operands[role][1]
        y == operands[role][2]
    IN  Sub(Add(Add(Add(Mul(left(x), left(y)), Mul(left(x), right(y))),
                    Mul(right(x), left(y))),
                r_left(role)),
            r_right(role))

\* test_mpc.rs:297-301: the input rows are shared among the helpers and
\* secure_mul is run on them.
MulInit ==
    \E r \in InputRows, s \in [1 .. 4 -> MaskSample],
       t \in [Roles -> MaskSample] :
        /\ row = r
        /\ operands = [h \in Roles |->
                          <<IntoShares(r[1], s[1], s[2])[h],
                            IntoShares(r[2], s[3], s[4])[h]>>]
        /\ triple = t
        /\ mpc = [h \in Roles |-> "start"]
        /\ mwire = {}
        /\ product = [h \in Roles |-> Replicated(0, 0)]

\* The helper computes d_i and sends it to its right neighbour.
SecureMulSend(h) ==
    /\ mpc[h] = "start"
    /\ mwire' = mwire \cup {[from |-> h, to |-> Peer(h, "Right"), d |-> d(h)]}
    /\ mpc' = [mpc EXCEPT ![h] = "sent"]
    /\ UNCHANGED <<row, operands, triple, product>>
    /\ UNCHANGED beside_mul

\* The helper receives d_{i-1} from its left neighbour and outputs
\* (d_{i-1}, d_i).
SecureMulReceive(h) ==
    /\ mpc[h] = "sent"
    /\ \E m \in mwire :
          /\ m.to = h
          /\ m.from = Peer(h, "Left")
          /\ product' = [product EXCEPT ![h] = Replicated(m.d, d(h))]
          /\ mwire' = mwire \ {m}
    /\ mpc' = [mpc EXCEPT ![h] = "done"]
    /\ UNCHANGED <<row, operands, triple>>
    /\ UNCHANGED beside_mul

MulNext == \E h \in Roles : SecureMulSend(h) \/ SecureMulReceive(h)

\* No multiplication.
MulUnused ==
    /\ row = <<0, 0>>
    /\ operands = [h \in Roles |-> <<Replicated(0, 0), Replicated(0, 0)>>]
    /\ triple = [h \in Roles |-> 0]
    /\ mpc = [h \in Roles |-> "done"]
    /\ mwire = {}
    /\ product = [h \in Roles |-> Replicated(0, 0)]

\* Every helper's multiplication has returned.
MulDone == \A h \in Roles : mpc[h] = "done"

\* The product is not reduced modulo the prime.
expected_unreduced(r) == r[1] * r[2]

\* test_mpc.rs:299: expected = a * b, a product of field values.
expected(r) == Mul(r[1], r[2])

\* test_mpc.rs:301-303: the revealed result of secure_mul, which validate
\* compares with `expected`.
actual == Reconstruct(product)

\* C16: Multiply correctness: each helper sends d_i = x_i*y_i + x_i*y_{i+1}
\* + x_{i+1}*y_i + r_left - r_right to its right neighbour and outputs
\* (d_{i-1}, d_i); once the three have returned, their outputs are a
\* consistent replicated sharing that opens to x * y.
C16_MultiplyOpensToProduct ==
    /\ \A m \in mwire : m.to = Peer(m.from, "Right") /\ m.d = d(m.from)
    /\ \A h \in Roles :
          mpc[h] = "done" =>
              product[h] = Replicated(d(Peer(h, "Left")), d(h))
    /\ MulDone =>
          /\ Consistent(product)
          /\ Reconstruct(product) = Mul(row[1], row[2])
          /\ mwire = {}

\* C16 witness: 17 * 30 multiplied with shares and PRSS values that are not
\* all zero; the product opens to 14.
C16_Witness ==
    /\ MulDone
    /\ row = <<17, PRIME - 1>>
    /\ triple["H1"] # triple["H2"]
    /\ \E h \in Roles : left(operands[h][1]) # 0 /\ right(operands[h][2]) # 0
    /\ Reconstruct(product) = 14

\* The revealed values scenario E1 states.
E1RevealStated == <<6, 35, 0>>

\* The E1 products as field values: 35 is 4 modulo 31.
E1Reveal == <<6, 4, 0>>

\* C17 as stated: multiplying the Fp31 input rows (2,3), (5,7), (0,9) and
\* revealing yields 6, 35, 0.
C17_E1YieldsStated ==
    \A i \in 1 .. Len(E1Inputs) :
        (MulDone /\ row = E1Inputs[i]) => actual = E1RevealStated[i]

\* C17, amended: multiplying the Fp31 input rows (2,3), (5,7), (0,9) and
\* revealing yields 6, 4, 0, the products reduced modulo 31, which is what
\* multiply_in_field expects.
C17_E1YieldsReduced ==
    \A i \in 1 .. Len(E1Inputs) :
        (MulDone /\ row = E1Inputs[i]) =>
            /\ actual = E1Reveal[i]
            /\ actual = expected(row)

\* C17 witness: the row (5, 7) has been multiplied and opens to 4.
C17_Witness ==
    /\ MulDone
    /\ row = E1Inputs[2]
    /\ actual = 4
    /\ \E h \in Roles : triple[h] # 0

(***************************************************************************)
(* ShareKnownValue (spec 4.4).                                             *)
(***************************************************************************)
\* Every helper holds (c, 0).
share_known_value_same_at_all(role, c) == Replicated(c, 0)

\* The share of the public constant c a helper makes: H1 holds (c, 0),
\* H2 (0, 0), H3 (0, c).
share_known_value(role, c) ==
    CASE role = "H1" -> Replicated(c, 0)
      [] role = "H2" -> Replicated(0, 0)
      [] OTHER -> Replicated(0, c)

\* The helpers are about to share a public constant.
KnownInit ==
    /\ constant \in 0 .. PRIME - 1
    /\ known = [h \in Roles |-> <<>>]

\* A helper makes its share of the constant: a local step.
ShareKnownValue(h) ==
    /\ known[h] = <<>>
    /\ known' = [known EXCEPT ![h] = share_known_value(h, constant)]
    /\ UNCHANGED constant
    /\ UNCHANGED beside_known

KnownNext == \E h \in Roles : ShareKnownValue(h)

\* No constant shared.
KnownUnused ==
    /\ constant = 0
    /\ known = [h \in Roles |-> <<>>]

\* No message exists or was ever sent on a channel of the model.
NoMessage == wire = {} /\ sent = <<>> /\ mwire = {}

\* C18: ShareKnownValue produces, without any message, a consistent
\* replicated sharing of the public constant c: H1 holds (c, 0), H2 (0, 0),
\* H3 (0, c); each helper's right coordinate is its right neighbour's left
\* one, and the three distinct coordinates sum to c.
C18_KnownValueShared ==
    /\ NoMessage
    /\ known["H1"] # <<>> => known["H1"] = <<constant, 0>>
    /\ known["H2"] # <<>> => known["H2"] = <<0, 0>>
    /\ known["H3"] # <<>> => known["H3"] = <<0, constant>>
    /\ (\A h \in Roles : known[h] # <<>>) =>
          /\ Consistent(known)
          /\ Reconstruct(known) = constant

\* C18 witness: the three helpers have shared the constant 17.
C18_Witness ==
    /\ constant = 17
    /\ \A h \in Roles : known[h] # <<>>
    /\ Reconstruct(known) = 17

(***************************************************************************)
(* apply_sort_permutation, sort/apply_sort/mod.rs.                         *)
(***************************************************************************)
\* The random permutations a pair of helpers may share: the identity, a
\* rotation and a transposition.
PermSample(n) ==
    {[i \in 1 .. n |-> i],
     [i \in 1 .. n |-> (i % n) + 1],
     [i \in 1 .. n |-> IF i = 1 THEN n ELSE IF i = n THEN 1 ELSE i]}

\* apply(permutation, values): position i receives values[permutation[i]].
apply(permutation, values) ==
    [i \in 1 .. Len(values) |-> values[permutation[i]]]

\* apply_inv(permutation, values): values[i] goes to position
\* permutation[i].
apply_inv(permutation, values) ==
    [j \in 1 .. Len(values) |->
        values[CHOOSE i \in 1 .. Len(values) : permutation[i] = j]]

\* permutation::sort(keys): the stable sort permutation, the place of every
\* record in the sorted order.
sort(keys) ==
    [i \in 1 .. Len(keys) |->
        1 + Cardinality({j \in 1 .. Len(keys) :
                            \/ keys[j] < keys[i]
                            \/ (keys[j] = keys[i] /\ j < i)})]

\* The match keys the input records are drawn with.
KeySample == {3, 7}

\* The helpers in the order of the sub-shuffles.
HelperOrder == <<"H1", "H2", "H3">>

\* Sub-shuffle k applies the permutation that helper k shares with its
\* right neighbour; the third helper is the to_helper of the reshare.
RoundPerm(rand, k) == rand[HelperOrder[k]]

RoundParties(k) == {HelperOrder[k], Peer(HelperOrder[k], "Right")}

\* What the three sub-shuffles make of a vector.
Shuffled(values, rand) ==
    apply(RoundPerm(rand, 3),
          apply(RoundPerm(rand, 2), apply(RoundPerm(rand, 1), values)))

\* generate_permutation_and_reveal_shuffled: the sort permutation of the
\* match keys, shuffled by the random permutations and revealed, with the
\* pair of random permutations the helper knows.
RevealedAndRandomPermutations(keys, rand, role) ==
    [revealed |-> Shuffled(sort(keys), rand),
     randoms_for_shuffle |-> <<rand[Peer(role, "Left")], rand[role]>>]

\* The step a context is narrowed to: the caller's step, then the substep.
narrow(step, substep) == Append(step, substep)

\* The step of the caller's context.
CallerStep == <<"protocol">>

ShuffleInputs == "shuffle-inputs"

\* The input vector: n records, each named by its place in the input.
InputRecords(n) == [i \in 1 .. n |-> i]

\* tests::semi_honest: the helpers hold the input records and the sort
\* permutation generated and revealed for their match keys.
ApplySortInit ==
    \E n \in 1 .. MaxLen :
        \E keys \in [1 .. n -> KeySample], rand \in [Roles -> PermSample(n)] :
            /\ match_keys = keys
            /\ sort_permutation =
                  [h \in Roles |-> RevealedAndRandomPermutations(keys, rand, h)]
            /\ objects = [h \in Roles |-> InputRecords(n)]
            /\ apc = [h \in Roles |-> "start"]
            /\ round = [h \in Roles |-> 0]
            /\ swire = {}
            /\ slog = {}
            /\ output = [h \in Roles |-> Pending]
            /\ shuffle_error = [h \in Roles |-> "none"]

\* The random permutation of sub-shuffle k as helper h knows it; the
\* to_helper of the sub-shuffle does not know it and draws its new shares
\* from PRSS.
KnownPerm(h, k) ==
    IF HelperOrder[k] = h THEN sort_permutation[h].randoms_for_shuffle[2]
    ELSE sort_permutation[h].randoms_for_shuffle[1]

\* The permutation the records under helper h's shares undergo in
\* sub-shuffle k.
SubShuffle(h, k) ==
    IF h \in RoundParties(k) THEN KnownPerm(h, k)
    ELSE sort_permutation[Peer(h, "Right")].randoms_for_shuffle[2]

\* apply_sort/mod.rs:31-38: shuffle_shares is called with the input, the two
\* random permutations and ctx.narrow(&ShuffleInputs).
CallShuffle(h) ==
    /\ apc[h] = "start"
    /\ apc' = [apc EXCEPT ![h] = "shuffle_send"]
    /\ round' = [round EXCEPT ![h] = 1]
    /\ UNCHANGED <<match_keys, sort_permutation, objects, swire, slog, output,
                   shuffle_error>>
    /\ UNCHANGED beside_sort

\* The message a party of sub-shuffle k sends to the other party.
ShuffleMessage(h, k, step) ==
    [from |-> h,
     to |-> CHOOSE p \in RoundParties(k) : p # h,
     step |-> narrow(step, k),
     phase |-> apc[h]]

\* The helper's vector after its sub-shuffle, and where the shuffle goes on.
EndRound(h) ==
    /\ objects' = [objects EXCEPT ![h] = apply(SubShuffle(h, round[h]), @)]
    /\ IF round[h] = 3
       THEN /\ apc' = [apc EXCEPT ![h] = "shuffled"]
            /\ UNCHANGED round
       ELSE /\ apc' = [apc EXCEPT ![h] = "shuffle_send"]
            /\ round' = [round EXCEPT ![h] = @ + 1]

\* shuffle_shares, a sub-shuffle: a party sends its reshare message under
\* the narrowed step; the to_helper has nothing to send or receive.
ShuffleSend(h) ==
    /\ apc[h] = "shuffle_send"
    /\ IF h \in RoundParties(round[h])
       THEN LET m == ShuffleMessage(h, round[h],
                                    narrow(CallerStep, ShuffleInputs))
            IN  /\ swire' = swire \cup {m}
                /\ slog' = slog \cup {m}
                /\ apc' = [apc EXCEPT ![h] = "shuffle_receive"]
                /\ UNCHANGED <<objects, round>>
       ELSE /\ EndRound(h)
            /\ UNCHANGED <<swire, slog>>
    /\ UNCHANGED <<match_keys, sort_permutation, output, shuffle_error>>
    /\ UNCHANGED beside_sort

\* shuffle_shares, a sub-shuffle: a party receives the other party's
\* message.
ShuffleReceive(h) ==
    /\ apc[h] = "shuffle_receive"
    /\ \E m \in swire :
          /\ m.to = h
          /\ m.step = narrow(narrow(CallerStep, ShuffleInputs), round[h])
          /\ swire' = swire \ {m}
    /\ EndRound(h)
    /\ UNCHANGED <<match_keys, sort_permutation, slog, output, shuffle_error>>
    /\ UNCHANGED beside_sort

\* The error of shuffle_shares replaced by the input: the function goes on
\* to apply the revealed permutation.
AfterShuffleError_unwrap_or_input(h, e) ==
    /\ apc' = [apc EXCEPT ![h] = "shuffled"]
    /\ UNCHANGED output

\* apply_sort/mod.rs:39: `.await?` on an Err(e) of shuffle_shares returns
\* Err(e) from apply_sort_permutation; lines 41-42 are not reached.
AfterShuffleError(h, e) ==
    /\ apc' = [apc EXCEPT ![h] = "returned"]
    /\ output' = [output EXCEPT ![h] = Err(e)]

\* The error with which shuffle_shares fails where helper h is: that of the
\* send or of the receive of the reshare it is in.
ShuffleError(h) ==
    IF apc[h] = "shuffle_send" THEN SendError ELSE ReceiveError

\* apply_sort/mod.rs:31-39: shuffle_shares returns an error (the transport
\* fails at most once in a query).
ShuffleFail(h) ==
    /\ apc[h] \in {"shuffle_send", "shuffle_receive"}
    /\ \A k \in Roles : shuffle_error[k] = "none"
    /\ shuffle_error' = [shuffle_error EXCEPT ![h] = ShuffleError(h)]
    /\ AfterShuffleError(h, ShuffleError(h))
    /\ UNCHANGED <<match_keys, sort_permutation, objects, round, swire, slog>>
    /\ UNCHANGED beside_sort

\* The revealed permutation is applied with apply instead of apply_inv.
ApplyRevealed_with_apply(h) ==
    /\ apc[h] = "shuffled"
    /\ objects' = [objects EXCEPT ![h] =
                       apply(sort_permutation[h].revealed, @)]
    /\ output' = [output EXCEPT ![h] = Ok(objects'[h])]
    /\ apc' = [apc EXCEPT ![h] = "returned"]
    /\ UNCHANGED <<match_keys, sort_permutation, round, swire, slog,
                   shuffle_error>>
    /\ UNCHANGED beside_sort

\* The second phase reshares the result: one more message per helper.
ApplyRevealed_with_message(h) ==
    /\ apc[h] = "shuffled"
    /\ objects' = [objects EXCEPT ![h] =
                       apply_inv(sort_permutation[h].revealed, @)]
    /\ output' = [output EXCEPT ![h] = Ok(objects'[h])]
    /\ apc' = [apc EXCEPT ![h] = "returned"]
    /\ slog' = slog \cup {[from |-> h, to |-> Peer(h, "Right"),
                            step |-> CallerStep, phase |-> apc[h]]}
    /\ UNCHANGED <<match_keys, sort_permutation, round, swire, shuffle_error>>
    /\ UNCHANGED beside_sort

\* apply_sort/mod.rs:41-42: apply_inv(&sort_permutation.revealed, &mut
\* shuffled_objects); Ok(shuffled_objects).
ApplyRevealed(h) ==
    /\ apc[h] = "shuffled"
    /\ objects' = [objects EXCEPT ![h] =
                       apply_inv(sort_permutation[h].revealed, @)]
    /\ output' = [output EXCEPT ![h] = Ok(objects'[h])]
    /\ apc' = [apc EXCEPT ![h] = "returned"]
    /\ UNCHANGED <<match_keys, sort_permutation, round, swire, slog,
                   shuffle_error>>
    /\ UNCHANGED beside_sort

ApplySortNext ==
    \E h \in Roles :
        \/ CallShuffle(h)
        \/ ShuffleSend(h)
        \/ ShuffleReceive(h)
        \/ ShuffleFail(h)
        \/ ApplyRevealed(h)

\* No apply_sort_permutation run.
ApplySortUnused ==
    /\ match_keys = <<>>
    /\ sort_permutation =
          [h \in Roles |-> [revealed |-> <<>>,
                            randoms_for_shuffle |-> <<(<<>>), (<<>>)>>]]
    /\ objects = [h \in Roles |-> <<>>]
    /\ apc = [h \in Roles |-> "returned"]
    /\ round = [h \in Roles |-> 0]
    /\ swire = {}
    /\ slog = {}
    /\ output = [h \in Roles |-> Pending]
    /\ shuffle_error = [h \in Roles |-> "none"]

\* The random permutations of the run, by the helper that shares each with
\* its right neighbour.
Randoms == [h \in Roles |-> sort_permutation[h].randoms_for_shuffle[2]]

\* Helper h is inside shuffle_shares.
InShuffle(h) == apc[h] \in {"shuffle_send", "shuffle_receive"}

\* shuffle_shares has returned to helper h.
AfterShuffle(h) == apc[h] = "shuffled" \/ output[h].tag = "ok"

\* The messages helper h has sent, and those waiting for it.
SentFrom(h) == {m \in slog : m.from = h}

WaitingFor(h) == {m \in swire : m.to = h}

\* Every message is sent from inside shuffle_shares under the ShuffleInputs
\* substep of the caller's step; the revealed permutation is applied only to
\* the completely shuffled vector.
ShuffleThenApply ==
    /\ \A m \in slog :
          /\ m.phase = "shuffle_send"
          /\ SubSeq(m.step, 1, 2) = narrow(CallerStep, ShuffleInputs)
    /\ \A h \in Roles :
          /\ apc[h] = "start" => objects[h] = InputRecords(Len(match_keys))
          /\ apc[h] = "shuffled" =>
                objects[h] = Shuffled(InputRecords(Len(match_keys)), Randoms)
          /\ output[h].tag = "ok" =>
                /\ apc[h] = "returned"
                /\ round[h] = 3
                /\ output[h].share =
                      apply_inv(sort_permutation[h].revealed,
                                Shuffled(InputRecords(Len(match_keys)),
                                         Randoms))
          /\ (apc[h] = "start" \/ InShuffle(h) \/ apc[h] = "shuffled") =>
                output[h] = Pending
          /\ AfterShuffle(h) =>
                /\ WaitingFor(h) = {}
                /\ Cardinality(SentFrom(h)) = 2

\* A step of a helper for which shuffle_shares has returned sends and
\* receives nothing.
LocalAfterShuffle ==
    \A h \in Roles :
        AfterShuffle(h) =>
            /\ {m \in slog' : m.from = h} = SentFrom(h)
            /\ {m \in swire' : m.to = h} = WaitingFor(h)

\* C19: apply_sort_permutation first runs shuffle_shares with the two
\* random permutations under the ShuffleInputs substep of the caller's
\* context and only after it has completed applies the revealed permutation
\* to the shuffled sequence; the second phase is local: once the shuffle
\* has returned to a helper no message is sent by it or received by it.
C19_ShuffleThenLocalApply ==
    /\ []ShuffleThenApply
    /\ [][LocalAfterShuffle]_vars

\* C19 witness: three helpers returned Ok for three records after the six
\* messages of the shuffle, with a revealed permutation that moves records.
C19_Witness ==
    /\ \A h \in Roles : output[h].tag = "ok"
    /\ Len(match_keys) = 3
    /\ Cardinality(slog) = 6
    /\ swire = {}
    /\ sort_permutation["H1"].revealed # InputRecords(3)
    /\ Randoms["H1"] # InputRecords(3)

\* C20: ApplySort correctness: with the revealed permutation computed on
\* the inputs shuffled by the same random permutations, every helper that
\* returned Ok holds perm.apply(V) for the sort permutation perm of the
\* match keys: the records in ascending order of their match keys, records
\* with equal keys in input order; the output has the length of the input
\* and is a permutation of it, and is the same at the three helpers.
C20_OpensToSorted ==
    \A h \in Roles :
        output[h].tag = "ok" =>
            LET n == Len(match_keys)
                out == output[h].share
            IN  /\ out = apply_inv(sort(match_keys), InputRecords(n))
                /\ Len(out) = n
                /\ \A r \in 1 .. n : \E i \in 1 .. n : out[i] = r
                /\ \A i, j \in 1 .. n :
                      i < j =>
                          \/ match_keys[out[i]] < match_keys[out[j]]
                          \/ /\ match_keys[out[i]] = match_keys[out[j]]
                             /\ out[i] < out[j]
                /\ \A k \in Roles :
                      output[k].tag = "ok" => output[k].share = out

\* C20 witness: three records whose sort permutation is a cycle of length
\* three, shuffled by random permutations that are not all the identity,
\* returned sorted at the three helpers.
C20_Witness ==
    /\ \A h \in Roles : output[h].tag = "ok"
    /\ match_keys = <<7, 3, 3>>
    /\ output["H1"].share = <<2, 3, 1>>
    /\ Randoms["H2"] # InputRecords(3)
    /\ sort_permutation["H1"].revealed # sort(match_keys)

\* The vector after the first k sub-shuffles.
PartlyShuffled(values, rand, k) ==
    IF k = 0 THEN values
    ELSE IF k = 1 THEN apply(RoundPerm(rand, 1), values)
    ELSE IF k = 2
         THEN apply(RoundPerm(rand, 2), apply(RoundPerm(rand, 1), values))
    ELSE Shuffled(values, rand)

\* C21: apply_sort_permutation propagates the error of shuffle_shares: a
\* helper to which shuffle_shares returned an error has returned exactly
\* that error from apply_sort_permutation, with no output vector; the
\* revealed permutation was not applied: its vector is the one the
\* sub-shuffles completed before the failure left.  And only such a helper
\* returns an error.
C21_ShuffleErrorPropagates ==
    \A h \in Roles :
        /\ shuffle_error[h] # "none" =>
              /\ output[h] = Err(shuffle_error[h])
              /\ output[h].share = <<>>
              /\ apc[h] = "returned"
              /\ round[h] \in 1 .. 3
              /\ objects[h] = PartlyShuffled(InputRecords(Len(match_keys)),
                                             Randoms, round[h] - 1)
        /\ output[h].tag = "err" => shuffle_error[h] # "none"

\* C21 witness: a helper whose receive failed in the second sub-shuffle
\* returned the error while holding a vector the revealed permutation would
\* have moved, and another helper returned Ok.
C21_Witness ==
    \E h, k \in Roles :
        /\ shuffle_error[h] = ReceiveError
        /\ output[h] = Err(ReceiveError)
        /\ round[h] = 2
        /\ objects[h] # InputRecords(Len(match_keys))
        /\ apply_inv(sort_permutation[h].revealed, objects[h]) # objects[h]
        /\ output[k].tag = "ok"

(***************************************************************************)
(* Gateway and channels (spec 4.2), as configured by bin/helper.rs.         *)
(***************************************************************************)
\* SendBufferConfig.items_in_batch (bin/helper.rs:49,
\* benches/oneshot/ipa.rs:20).
items_in_batch == 1

\* The steps of the channels to the peer.
Steps == {"reshare-step-1", "reshare-step-2"}

GatewayRecordIds == 0 .. MaxSends - 1

\* A slot is a (step, record_id).
GatewaySlots == Steps \X GatewayRecordIds

\* The messages that may be outstanding on one channel.
Capacity == items_in_batch * batch_count

\* No payload yet.
Nothing == [step |-> "", record_id |-> 0, bytes |-> <<>>]

\* What the transport carries for a send at a slot.
Frame(slot, bytes) ==
    [step |-> slot[1], record_id |-> slot[2], bytes |-> <<bytes>>]

\* The payloads of a run: the same field value at every slot, or a
\* different one at every slot.
PayloadSample ==
    {[s \in GatewaySlots |-> 17],
     [s \in GatewaySlots |->
         (IF s[1] = "reshare-step-1" THEN 0 ELSE MaxSends) + s[2]]}

\* The messages outstanding on the channel of a step.
Outstanding(step) == {m \in send_buffer : m.step = step}

\* Every send is accepted at once.
HasRoom_unbounded(step) == TRUE

\* Fewer than items_in_batch * batch_count messages are outstanding.
HasRoom(step) == Cardinality(Outstanding(step)) < Capacity

\* The batch of the send buffer a message lies in.
Batch(m) ==
    {k \in send_buffer :
        /\ k.step = m.step
        /\ k.record_id \div items_in_batch = m.record_id \div items_in_batch}

\* receive takes the next message of the channel, whatever its record id.
Deliverable_next_of_channel(slot) == {m \in transit : m.step = slot[1]}

\* The messages receive(peer, step, record_id) may return.
Deliverable(slot) ==
    {m \in transit : m.step = slot[1] /\ m.record_id = slot[2]}

GatewayInit ==
    /\ payloads \in PayloadSample
    /\ issued = {}
    /\ suspended = {}
    /\ send_buffer = {}
    /\ transit = {}
    /\ delivered = [s \in GatewaySlots |-> Nothing]

\* send(peer, step, record_id, bytes), as called by Reshare::execute
\* (reshare.rs:51-53): accepted into the send buffer, or suspended when the
\* channel has no room.
GatewaySend(slot) ==
    /\ slot \notin issued
    /\ issued' = issued \cup {slot}
    /\ IF HasRoom(slot[1])
       THEN /\ send_buffer' = send_buffer \cup {Frame(slot, payloads[slot])}
            /\ UNCHANGED suspended
       ELSE /\ suspended' = suspended \cup {slot}
            /\ UNCHANGED send_buffer
    /\ UNCHANGED <<payloads, transit, delivered>>
    /\ UNCHANGED beside_gateway

\* A suspended send resumes when the channel has room.
GatewayResume(slot) ==
    /\ slot \in suspended
    /\ HasRoom(slot[1])
    /\ suspended' = suspended \ {slot}
    /\ send_buffer' = send_buffer \cup {Frame(slot, payloads[slot])}
    /\ UNCHANGED <<payloads, issued, transit, delivered>>
    /\ UNCHANGED beside_gateway

\* A full batch is transmitted: the transport takes it from the send
\* buffer.  The transport keeps no order among the messages it carries.
Drain ==
    /\ \E m \in send_buffer :
          /\ Cardinality(Batch(m)) = items_in_batch
          /\ send_buffer' = send_buffer \ Batch(m)
          /\ transit' = transit \cup Batch(m)
    /\ UNCHANGED <<payloads, issued, suspended, delivered>>
    /\ UNCHANGED beside_gateway

\* receive(peer, step, record_id), as called by Reshare::execute
\* (reshare.rs:56-58): suspends until the message of the slot has arrived.
GatewayReceive(slot) ==
    /\ delivered[slot] = Nothing
    /\ \E m \in Deliverable(slot) :
          /\ delivered' = [delivered EXCEPT ![slot] = m]
          /\ transit' = transit \ {m}
    /\ UNCHANGED <<payloads, issued, suspended, send_buffer>>
    /\ UNCHANGED beside_gateway

GatewayNext ==
    \/ \E slot \in GatewaySlots :
          \/ GatewaySend(slot)
          \/ GatewayResume(slot)
          \/ GatewayReceive(slot)
    \/ Drain

\* No gateway traffic.
GatewayUnused ==
    /\ payloads = <<>>
    /\ issued = {}
    /\ suspended = {}
    /\ send_buffer = {}
    /\ transit = {}
    /\ delivered = <<>>

\* C22: Gateway delivery: what receive(peer, step, record_id) returned is
\* exactly the payload the peer sent at the same (step, record_id), in
\* whatever order the sends were issued and the transport carried the
\* messages; a payload sent at one slot is never delivered at another slot,
\* and never twice.
C22_DeliversSlotPayload ==
    \A slot \in GatewaySlots :
        delivered[slot] # Nothing =>
            /\ delivered[slot].bytes = <<payloads[slot]>>
            /\ delivered[slot].step = slot[1]
            /\ delivered[slot].record_id = slot[2]
            /\ slot \in issued
            /\ delivered[slot] \notin transit \cup send_buffer

\* C22 witness: record 1 of a step was delivered before record 0 of the
\* step was even sent, while a message of the other step with another
\* payload was on its way.
C22_Witness ==
    \E s \in Steps :
        /\ delivered[<<s, 1>>] # Nothing
        /\ <<s, 0>> \notin issued
        /\ \E m \in transit :
              m.step # s /\ m.bytes # delivered[<<s, 1>>].bytes

\* The slots whose send was accepted.
Accepted == issued \ suspended

\* No channel holds more than items_in_batch * batch_count outstanding
\* messages, and every send issued is suspended, outstanding, on its way or
\* delivered.
BoundedAndKept ==
    /\ \A s \in Steps : Cardinality(Outstanding(s)) <= Capacity
    /\ suspended \subseteq issued
    /\ \A slot \in GatewaySlots :
          LET m == Frame(slot, payloads[slot])
          IN  /\ slot \in Accepted <=>
                    \/ m \in send_buffer \/ m \in transit
                    \/ delivered[slot] = m
              /\ slot \notin Accepted =>
                    /\ m \notin send_buffer \cup transit
                    /\ delivered[slot] = Nothing

\* A send issued on a full channel suspends and leaves the buffer as it is.
FullSuspends ==
    \A slot \in GatewaySlots :
        (/\ slot \notin issued
         /\ slot \in issued'
         /\ Cardinality(Outstanding(slot[1])) = Capacity)
            => (slot \in suspended' /\ send_buffer' = send_buffer)

\* C23: Gateway backpressure: on every channel the outstanding messages
\* never exceed items_in_batch * batch_count; a send issued when that many
\* are outstanding suspends, is not dropped and is not accepted, and is
\* accepted once the channel has been drained: a send is suspended once at
\* most, so in the end no send is left suspended.
C23_Backpressure ==
    /\ []BoundedAndKept
    /\ [][FullSuspends]_vars
    /\ <>[](suspended = {})

\* C23 witness: a send is suspended on a channel with items_in_batch *
\* batch_count outstanding messages.
C23_Witness ==
    \E slot \in suspended :
        /\ Cardinality(Outstanding(slot[1])) = Capacity
        /\ Capacity = items_in_batch * batch_count

(***************************************************************************)
(* InMemoryNetwork, test_fixture/transport/network.rs.                     *)
(***************************************************************************)
\* network.rs:17-19: the identities the three transports are made with.
HelperIds == <<1, 2, 3>>

\* The third call connects third to second again.
ConnectCalls_third_to_second == <<(<<1, 2>>), (<<2, 3>>), (<<3, 2>>)>>

\* network.rs:21-23: first.connect(&mut second); second.connect(&mut third);
\* third.connect(&mut first), by the places of the transports in the array.
ConnectCalls == <<(<<1, 2>>), (<<2, 3>>), (<<3, 1>>)>>

\* The steps of default(): three transports made, three connect calls,
\* three start calls.
Built == 9

NetworkInit ==
    /\ net_pc = 0
    /\ net_transports = <<>>
    /\ connects = <<>>
    /\ answers = <<>>

\* network.rs:16-20: InMemoryTransport::with_stub_callbacks(i), the array
\* literal evaluated from left to right.
WithStubCallbacks ==
    /\ net_pc \in 0 .. 2
    /\ net_transports' =
          Append(net_transports,
                 [identity |-> HelperIds[net_pc + 1], started |-> FALSE])
    /\ net_pc' = net_pc + 1
    /\ UNCHANGED <<connects, answers>>
    /\ UNCHANGED beside_network

\* network.rs:21-23: the connect calls, in order.
Connect ==
    /\ net_pc \in 3 .. 5
    /\ LET pair == ConnectCalls[net_pc - 2]
       IN  connects' = Append(connects,
                              <<net_transports[pair[1]].identity,
                                net_transports[pair[2]].identity>>)
    /\ net_pc' = net_pc + 1
    /\ UNCHANGED <<net_transports, answers>>
    /\ UNCHANGED beside_network

\* network.rs:26: [first.start(), second.start(), third.start()].
Start ==
    /\ net_pc \in 6 .. 8
    /\ net_transports' =
          [net_transports EXCEPT ![net_pc - 5].started = TRUE]
    /\ net_pc' = net_pc + 1
    /\ UNCHANGED <<connects, answers>>
    /\ UNCHANGED beside_network

\* Arc::downgrade of the transport at a place of self.transports.
downgrade(i) == [place |-> i, identity |-> net_transports[i].identity]

\* network.rs:34-41
helper_identities == [i \in 1 .. 3 |-> net_transports[i].identity]

\* network.rs:44-49: the first transport with the identity, if any.
transport(id) ==
    IF \E i \in 1 .. 3 : net_transports[i].identity = id
    THEN <<downgrade(CHOOSE i \in 1 .. 3 :
                        /\ net_transports[i].identity = id
                        /\ \A j \in 1 .. i - 1 :
                              net_transports[j].identity # id)>>
    ELSE <<>>

\* network.rs:53-63
transports == [i \in 1 .. 3 |-> downgrade(i)]

\* A call on the built network.
Query(name, value) ==
    /\ net_pc = Built
    /\ Len(answers) < MaxQueries
    /\ answers' = Append(answers, [call |-> name, value |-> value])
    /\ UNCHANGED <<net_pc, net_transports, connects>>
    /\ UNCHANGED beside_network

CallHelperIdentities == Query("helper_identities", helper_identities)

CallTransport == \E id \in 1 .. 3 : Query(<<"transport", id>>, transport(id))

CallTransports == Query("transports", transports)

NetworkNext ==
    \/ WithStubCallbacks
    \/ Connect
    \/ Start
    \/ CallHelperIdentities
    \/ CallTransport
    \/ CallTransports

\* No InMemoryNetwork.
NetworkUnused ==
    /\ net_pc = 0
    /\ net_transports = <<>>
    /\ connects = <<>>
    /\ answers = <<>>

\* The connect calls made between the transports a and b.
ConnectsOf(a, b) ==
    {k \in 1 .. Len(connects) : {connects[k][1], connects[k][2]} = {a, b}}

\* C24: InMemoryNetwork::default() makes three transports with the distinct
\* identities 1, 2, 3 and connects them in a ring: no pair of transports is
\* ever connected twice, a transport is never connected to itself, no
\* transport is started before each of the three pairs has been connected
\* once, and on the built network transports() returns three handles whose
\* identities are, place by place, those of helper_identities().
C24_RingBeforeStart ==
    /\ \A i \in 1 .. Len(net_transports) : net_transports[i].identity = i
    /\ \A k \in 1 .. Len(connects) : connects[k][1] # connects[k][2]
    /\ \A a, b \in 1 .. 3 : Cardinality(ConnectsOf(a, b)) <= 1
    /\ (\E i \in 1 .. Len(net_transports) : net_transports[i].started) =>
          /\ Len(net_transports) = 3
          /\ \A a, b \in 1 .. 3 :
                a # b => Cardinality(ConnectsOf(a, b)) = 1
    /\ net_pc = Built =>
          /\ Len(connects) = 3
          /\ \A i \in 1 .. 3 : net_transports[i].started
    /\ \A k \in 1 .. Len(answers) :
          answers[k].call = "transports" =>
              /\ Len(answers[k].value) = 3
              /\ [i \in 1 .. 3 |-> answers[k].value[i].identity]
                    = helper_identities
              /\ helper_identities = <<1, 2, 3>>

\* C24 witness: the built network answered transports() and
\* helper_identities().
C24_Witness ==
    /\ net_pc = Built
    /\ \E j, k \in 1 .. Len(answers) :
          /\ answers[j].call = "transports"
          /\ answers[k].call = "helper_identities"
          /\ answers[k].value = <<1, 2, 3>>

(***************************************************************************)
(* Message addresses and errors of the RandomBitsGenerator.                *)
(***************************************************************************)
\* random_bits_generator.rs:56: RBGStep::FallbackChannel => "fallback".
FallbackChannel == "fallback"

\* Both generators are given the base context.
GeneratorStep_base_for_both(channel) == CallerStep

\* random_bits_generator.rs:76-82: the default generator keeps the step of
\* the context given to new, the fallback generator that step narrowed by
\* FallbackChannel.
GeneratorStep(channel) ==
    IF channel = "default" THEN CallerStep
    ELSE narrow(CallerStep, FallbackChannel)

\* The (step, record_id) of a solved_bits invocation.
Address(channel, i) == <<GeneratorStep(channel), i>>

\* The solved_bits invocations of helper h's RandomBitsGenerator: the n-th
\* next() of a generator.
Invocations(h) ==
    UNION {{ch} \X (1 .. Len(burned[h][ch])) : ch \in Channels}

AddressOf(h, c) == Address(c[1], burned[h][c[1]][c[2]])

\* C26: the default and the fallback generator never share a message
\* address: the default generator runs solved_bits on the base step and the
\* fallback generator on the base step narrowed by "fallback", so although
\* both counters start at 0 no two solved_bits invocations of one
\* RandomBitsGenerator use the same (step, record_id), as far as the
\* counters run here (a counter that wraps repeats its own ids: C14).
C26_NoSharedAddress ==
    /\ GeneratorStep("fallback") # GeneratorStep("default")
    /\ GeneratorStep("fallback") = Append(GeneratorStep("default"), "fallback")
    /\ \A h \in Roles :
          \A a, b \in Invocations(h) :
              a # b => AddressOf(h, a) # AddressOf(h, b)

\* C26 witness: a helper has run solved_bits at record id 0 of the default
\* generator and at record ids 0 and 1 of the fallback generator.
C26_Witness ==
    \E h \in Roles :
        /\ burned[h]["default"] # <<>>
        /\ burned[h]["default"][1] = 0
        /\ Len(burned[h]["fallback"]) = 2
        /\ burned[h]["fallback"][1] = 0

\* The finished calls of helper h that returned an error.
ErrorReturns(h) ==
    {n \in 1 .. Len(returned[h]) : returned[h][n].tag = "err"}

\* What a call that returned an error did before: an error of the default
\* attempt ends the call with no fallback attempt and no increment of
\* abort_count; an error of a fallback attempt ends the loop at that
\* attempt; the record id of the failed attempt was drawn once.
NoAttemptAfterError ==
    \A h \in Roles :
        \A n \in ErrorReturns(h) :
            LET r == returned[h][n]
            IN  /\ r.channel = "default" =>
                      /\ r.default_outcome = "Err"
                      /\ r.aborts = 0
                      /\ r.fallbacks = 0
                      /\ r.rid = r.default_id
                /\ r.channel = "fallback" =>
                      /\ r.default_outcome = "None"
                      /\ r.fallbacks >= 1
                      /\ r.aborts = r.fallbacks
                /\ Cardinality({i \in 1 .. Len(burned[h][r.channel]) :
                                   burned[h][r.channel][i] = r.rid}) = 1
                /\ r.default_id < default_counter[h]
                /\ r.channel = "fallback" => r.rid < fallback_counter[h]

\* The step in which a call returns an error changes no counter, and no
\* step takes a counter or abort_count back.
ErrorLeavesCounters ==
    \A h \in Roles :
        /\ default_counter'[h] >= default_counter[h]
        /\ fallback_counter'[h] >= fallback_counter[h]
        /\ abort_count'[h] >= abort_count[h]
        /\ (/\ Len(returned'[h]) > Len(returned[h])
            /\ returned'[h][Len(returned'[h])].tag = "err")
              => /\ default_counter'[h] = default_counter[h]
                 /\ fallback_counter'[h] = fallback_counter[h]
                 /\ abort_count'[h] = abort_count[h]
                 /\ burned'[h] = burned[h]

\* C27: generate() does no local retry on error: an error of the default
\* attempt is returned without a fallback attempt and without touching the
\* fallback counter or abort_count; an error of a fallback attempt is
\* returned and ends the loop; the record id already taken is not handed
\* out again and abort_count is never decremented.
C27_NoRetryOnError ==
    /\ []NoAttemptAfterError
    /\ [][ErrorLeavesCounters]_vars

\* C27 witness: a call whose fallback attempt failed returned the error,
\* and the next call of the helper drew the next default record id and
\* returned a share.
C27_Witness ==
    \E h \in Roles :
        /\ Len(returned[h]) = 2
        /\ returned[h][1].tag = "err"
        /\ returned[h][1].channel = "fallback"
        /\ returned[h][2].tag = "ok"
        /\ returned[h][2].default_id = 1
        /\ abort_count[h] = 1

(***************************************************************************)
(* RandomBitsGenerator::new, random_bits_generator.rs:69-85, over the       *)
(* Context of spec 4.3.                                                    *)
(***************************************************************************)
\* TotalRecords: not set, Indeterminate, or Specified(n).
Unspecified == <<"Unspecified", 0>>

Indeterminate == <<"Indeterminate", 0>>

Specified(n) == <<"Specified", n>>

TotalRecordsSample == {Unspecified, Indeterminate, Specified(1)}

\* A context, as far as new looks at it.
Context(step, total_records) ==
    [step |-> step, total_records |-> total_records]

NoContext == Context(<<>>, <<"none", 0>>)

is_total_records_unspecified(ctx) == ctx.total_records = Unspecified

\* ctx.narrow(substep): the step appended, the totals inherited.
ctx_narrow(ctx, substep) ==
    Context(narrow(ctx.step, substep), ctx.total_records)

\* ctx.set_total_records(n): a child context with the totals fixed; an
\* error if they are already specified.  The context it is called on stays
\* as it is.
set_total_records(ctx, total_records) ==
    IF is_total_records_unspecified(ctx)
    THEN Context(ctx.step, total_records)
    ELSE NoContext

\* The fallback context is narrowed from the default generator's context.
FallbackParent_default_context(ctx, dctx) == dctx

\* random_bits_generator.rs:80: ctx.narrow(&RBGStep::FallbackChannel): the
\* fallback context is narrowed from the context given to new.
FallbackParent(ctx, dctx) == ctx

\* random_bits_generator.rs:72, 77, 81: the argument is dropped and
\* TotalRecords::Indeterminate is what both generators are given.
TotalsGiven(arg) == Indeterminate

\* The steps of the contexts new is called with.
StepSample == {<<>>, CallerStep, narrow(CallerStep, ShuffleInputs)}

NewInit ==
    /\ new_ctx \in {Context(s, t) : s \in StepSample, t \in TotalRecordsSample}
    /\ new_arg \in {Indeterminate} \cup {Specified(n) : n \in 1 .. MaxLen}
    /\ debug_assertions \in BOOLEAN
    /\ new_pc = "entered"
    /\ default_ctx = NoContext
    /\ fallback_ctx = NoContext
    /\ set_calls = <<>>

\* random_bits_generator.rs:72-74: drop(total_records);
\* debug_assert!(ctx.is_total_records_unspecified()).
NewAssert ==
    /\ new_pc = "entered"
    /\ new_pc' = IF debug_assertions /\ ~is_total_records_unspecified(new_ctx)
                 THEN "panicked" ELSE "asserted"
    /\ UNCHANGED <<new_ctx, new_arg, debug_assertions, default_ctx,
                   fallback_ctx, set_calls>>
    /\ UNCHANGED beside_new

\* random_bits_generator.rs:76-78: the default generator's context.
NewDefault ==
    /\ new_pc = "asserted"
    /\ set_calls' = Append(set_calls, new_ctx)
    /\ LET made == set_total_records(new_ctx, TotalsGiven(new_arg))
       IN  /\ default_ctx' = made
           /\ new_pc' = IF made = NoContext THEN "panicked"
                        ELSE "default_made"
    /\ UNCHANGED <<new_ctx, new_arg, debug_assertions, fallback_ctx>>
    /\ UNCHANGED beside_new

\* random_bits_generator.rs:79-82: the fallback generator's context.
NewFallback ==
    /\ new_pc = "default_made"
    /\ LET narrowed == ctx_narrow(FallbackParent(new_ctx, default_ctx),
                                  FallbackChannel)
           made == set_total_records(narrowed, TotalsGiven(new_arg))
       IN  /\ set_calls' = Append(set_calls, narrowed)
           /\ fallback_ctx' = made
           /\ new_pc' = IF made = NoContext THEN "panicked" ELSE "built"
    /\ UNCHANGED <<new_ctx, new_arg, debug_assertions, default_ctx>>
    /\ UNCHANGED beside_new

NewNext == NewAssert \/ NewDefault \/ NewFallback

\* No call of new.
NewUnused ==
    /\ new_ctx = NoContext
    /\ new_arg = Indeterminate
    /\ debug_assertions = FALSE
    /\ new_pc = "built"
    /\ default_ctx = NoContext
    /\ fallback_ctx = NoContext
    /\ set_calls = <<>>

\* C29: RandomBitsGenerator::new never double-sets total records: given a
\* context whose total records are unspecified, each of its two
\* set_total_records calls is applied to a context with unspecified totals,
\* the first to the context given and the second to that context freshly
\* narrowed by "fallback"; no call fails, and both generators end up
\* Indeterminate, on the given step and on the narrowed one, whatever
\* total_records argument was passed.
C29_NoDoubleSet ==
    is_total_records_unspecified(new_ctx) =>
        /\ new_pc # "panicked"
        /\ \A i \in 1 .. Len(set_calls) :
              is_total_records_unspecified(set_calls[i])
        /\ Len(set_calls) >= 1 => set_calls[1] = new_ctx
        /\ Len(set_calls) >= 2 =>
              set_calls[2] = Context(Append(new_ctx.step, "fallback"),
                                     Unspecified)
        /\ new_pc \in {"default_made", "built"} =>
              default_ctx = Context(new_ctx.step, Indeterminate)
        /\ new_pc = "built" =>
              /\ Len(set_calls) = 2
              /\ fallback_ctx = Context(Append(new_ctx.step, "fallback"),
                                        Indeterminate)

\* C29 witness: new was called with an unspecified context on a narrowed
\* step and with Specified(2) as argument, and has built both generators.
C29_Witness ==
    /\ new_pc = "built"
    /\ is_total_records_unspecified(new_ctx)
    /\ new_ctx.step = narrow(CallerStep, ShuffleInputs)
    /\ new_arg = Specified(2)
    /\ Len(set_calls) = 2

(***************************************************************************)
(* Specifications.                                                         *)
(***************************************************************************)
\* The three helpers run Reshare::execute once, as in tests::reshare.
InitReshare ==
    /\ ReshareInit
    /\ RBGUnused /\ CountingUnused /\ MulUnused
    /\ KnownUnused /\ ApplySortUnused /\ GatewayUnused
    /\ NetworkUnused /\ NewUnused

SpecReshare == InitReshare /\ [][ReshareNext]_vars

\* The same run over a lossless channel, every helper's task scheduled
\* fairly; the PRSS values, on which no step waits, are drawn from two.
InitReshareLive ==
    /\ ReshareInit
    /\ prss \in [Roles -> {17, PRIME - 1}]
    /\ RBGUnused /\ CountingUnused /\ MulUnused
    /\ KnownUnused /\ ApplySortUnused /\ GatewayUnused
    /\ NetworkUnused /\ NewUnused

SpecReshareLive ==
    /\ InitReshareLive
    /\ [][LosslessNext]_vars
    /\ \A h \in Roles : WF_vars(LosslessStep(h))

\* Each helper owns one RandomBitsGenerator and calls generate() from one
\* task, as in tests::semi_honest (join3 of the three generate() futures).
InitRBG ==
    /\ RBGInit(Roles \X {1})
    /\ ReshareUnused /\ CountingUnused /\ MulUnused
    /\ KnownUnused /\ ApplySortUnused /\ GatewayUnused
    /\ NetworkUnused /\ NewUnused

SpecRBG == InitRBG /\ [][RBGNext]_vars

\* The same three generators with fairly scheduled tasks, a transport that
\* does not fail and a fallback channel that is not starved, as in
\* tests::uses_fallback_channel.
SpecRBGLive ==
    /\ InitRBG
    /\ [][LiveNext]_vars
    /\ \A h \in Roles : WF_vars(LiveStep(h))

\* One RandomBitsGenerator shared by the concurrent tasks of helper H1.
InitRBGShared ==
    /\ RBGInit({"H1"} \X TaskIds)
    /\ ReshareUnused /\ CountingUnused /\ MulUnused
    /\ KnownUnused /\ ApplySortUnused /\ GatewayUnused
    /\ NetworkUnused /\ NewUnused

SpecRBGShared == InitRBGShared /\ [][RBGNext]_vars

\* H1 and H2 each share their RandomBitsGenerator among two concurrent
\* tasks (the helpers meet only in the public outcome of solved_bits, so
\* two of them show what racing tasks do).
InitRBGRacing ==
    /\ RBGInit({"H1", "H2"} \X TaskIds)
    /\ ReshareUnused /\ CountingUnused /\ MulUnused
    /\ KnownUnused /\ ApplySortUnused /\ GatewayUnused
    /\ NetworkUnused /\ NewUnused

SpecRBGRacing == InitRBGRacing /\ [][RacingNext]_vars

\* One CountingGenerator serving next() calls one after another.
InitCounting ==
    /\ CountingInit
    /\ ReshareUnused /\ RBGUnused /\ MulUnused
    /\ KnownUnused /\ ApplySortUnused /\ GatewayUnused
    /\ NetworkUnused /\ NewUnused

SpecCounting == InitCounting /\ [][CountingNext]_vars

\* The three helpers multiply one input row, as in multiply_in_field.
InitMul ==
    /\ MulInit
    /\ ReshareUnused /\ RBGUnused /\ CountingUnused
    /\ KnownUnused /\ ApplySortUnused /\ GatewayUnused
    /\ NetworkUnused /\ NewUnused

SpecMul == InitMul /\ [][MulNext]_vars

\* The three helpers share a public constant.
InitKnown ==
    /\ KnownInit
    /\ ReshareUnused /\ RBGUnused /\ CountingUnused
    /\ MulUnused /\ ApplySortUnused /\ GatewayUnused
    /\ NetworkUnused /\ NewUnused

SpecKnown == InitKnown /\ [][KnownNext]_vars

\* The three helpers run apply_sort_permutation on one input vector, as in
\* apply_sort tests::semi_honest.
InitApplySort ==
    /\ ApplySortInit
    /\ ReshareUnused /\ RBGUnused /\ CountingUnused
    /\ MulUnused /\ KnownUnused /\ GatewayUnused
    /\ NetworkUnused /\ NewUnused

SpecApplySort == InitApplySort /\ [][ApplySortNext]_vars

\* One helper sends to one peer over the channels of two steps; the gateway
\* drains its send buffer and wakes suspended sends as long as it can.
InitGateway ==
    /\ GatewayInit
    /\ ReshareUnused /\ RBGUnused /\ CountingUnused
    /\ MulUnused /\ KnownUnused /\ ApplySortUnused
    /\ NetworkUnused /\ NewUnused

SpecGateway ==
    /\ InitGateway
    /\ [][GatewayNext]_vars
    /\ WF_vars(Drain)
    /\ \A slot \in GatewaySlots : WF_vars(GatewayResume(slot))

\* InMemoryNetwork::default() runs, then the fixture calls the network.
InitNetwork ==
    /\ NetworkInit
    /\ ReshareUnused /\ RBGUnused /\ CountingUnused
    /\ MulUnused /\ KnownUnused /\ ApplySortUnused
    /\ GatewayUnused /\ NewUnused

SpecNetwork == InitNetwork /\ [][NetworkNext]_vars

\* One call of RandomBitsGenerator::new.
InitNew ==
    /\ NewInit
    /\ ReshareUnused /\ RBGUnused /\ CountingUnused
    /\ MulUnused /\ KnownUnused /\ ApplySortUnused
    /\ GatewayUnused /\ NetworkUnused

SpecNew == InitNew /\ [][NewNext]_vars

====
